---- MODULE Spec2Model ----
(***************************************************************************)
(* QGIS Monitor Pro: the monitoring engine (qgis_monitor.py) and the       *)
(* ultra logger (ultra_logger.py) as a state machine over one shared       *)
(* Python logger named "QGISMonitorPro".                                   *)
(*                                                                         *)
(* Time is an integer number of milliseconds (time.time() * 1000).         *)
(* Every operation of the program is a function from the world record W    *)
(* to the world after the call; an action installs that world.             *)
(***************************************************************************)
EXTENDS Integers, Sequences, FiniteSets, TLC

\* ------------------------------------------------------------------------
\* Bounds of the model
\* ------------------------------------------------------------------------
\* last instant (ms) of the lifecycle specification's clock, in steps of Step
MaxTime == 1000
\* number of operations (calls, emissions) one behaviour performs
MaxOps == 4
\* the clock at the first state, ms: time.time() is far from 0.0
Epoch == 100000
\* how long the watchdog specification runs, ms
WatchdogHorizon == 30000
\* how long the coalescing specification runs, ms
CoalesceHorizon == 4000
\* how long the rate limiter specification runs, ms
RateHorizon == 1500
\* number of bursts one behaviour of the rate limiter specification emits
MaxBursts == 3
\* number of batches one behaviour of the processing specification runs
MaxBatches == 2

\* ------------------------------------------------------------------------
\* Program constants
\* ------------------------------------------------------------------------
DEBUG == 10
INFO == 20
WARNING == 30
ERROR == 40
CRITICAL == 50
\* MemoryHandler(256, flushLevel=logging.INFO, target=fh)
MemCapacity == 256
\* Queue(maxsize=20000)
QueueCap == 20000
\* RateLimitFilter(per_sec=20) installed by _qmp_enhance_bootstrap
BootPerSec == 20
\* the one second window of every rate limiter, in ms
RateWindow == 1000
\* Qgis.MessageLevel
QInfo == 0
QWarning == 1
QCritical == 2

MONITOR_TAG == "QGISMonitorPro"

\* ------------------------------------------------------------------------
\* State
\* ------------------------------------------------------------------------
VARIABLES
    now,            \* the clock, ms
    cfg,            \* the settings the engine reads, as get_setting returns them
    store,          \* QSettings(ORG, APP): key -> stored value
    dock,           \* the Live Log Dock and its tail session
    plugin,         \* the Plugin Controller: toggle action, dialogs, deferred calls
    project,        \* QgsProject.instance().baseName()
    started,        \* qgis_monitor._started
    appProps,       \* QgsApplication.instance() property bag
    LOG_DIR, LOG_FILE, ERR_PATH, JSON_PATH,
    latest,         \* content of latest.txt (FULL, ERRORS, JSON)
    handlers,       \* logging.getLogger("QGISMonitorPro").handlers
    khandlers,      \* logging.getLogger("QGISKernelCore").handlers
    closedH,        \* ids of the handlers that were close()d
    memBuf,         \* buffer of the engine's MemoryHandler
    jh,             \* the engine's JsonWriter: the path it holds open, or NoPath
    tap,            \* qgis_monitor._WATCHDOG_FILTER: its id, 0 for None
    last_log_emit, watchdog_warned,
    timers,         \* heartbeat, watchdog and coalesce QTimers
    COALESCE,       \* qgis_monitor._COALESCE
    rlBuckets,      \* RateLimitFilter._bucket of every installed limiter
    files,          \* path -> lines written
    console,        \* the host message log (QgsMessageLog)
    subs,           \* slots connected to messageLog().messageReceived
    excepthook, stderr, stdout,   \* sys.excepthook, sys.stderr, sys.stdout
    gen,            \* number of objects created so far (object identities)
    hooks,          \* processing._qgm_wrapped and the connected host signals
    breadcrumbs,    \* qgis_monitor._breadcrumbs
    ultra,          \* ultra_logger module globals
    obs             \* observations of the last operation (history)

vars == << now, cfg, store, dock, plugin, project, started, appProps, LOG_DIR, LOG_FILE, ERR_PATH,
           JSON_PATH, latest, handlers, khandlers, closedH, memBuf, jh, tap,
           last_log_emit, watchdog_warned, timers, COALESCE, rlBuckets, files,
           console, subs, excepthook, stderr, stdout, gen, hooks,
           breadcrumbs, ultra, obs >>

\* The world as one record: what the operations below read and return.
W == [ now |-> now, cfg |-> cfg, store |-> store, dock |-> dock,
       plugin |-> plugin, project |-> project, started |-> started,
       appProps |-> appProps, LOG_DIR |-> LOG_DIR, LOG_FILE |-> LOG_FILE,
       ERR_PATH |-> ERR_PATH, JSON_PATH |-> JSON_PATH, latest |-> latest,
       handlers |-> handlers, khandlers |-> khandlers, closedH |-> closedH,
       memBuf |-> memBuf, jh |-> jh, tap |-> tap,
       last_log_emit |-> last_log_emit, watchdog_warned |-> watchdog_warned,
       timers |-> timers, COALESCE |-> COALESCE, rlBuckets |-> rlBuckets,
       files |-> files, console |-> console, subs |-> subs,
       excepthook |-> excepthook, stderr |-> stderr, stdout |-> stdout,
       gen |-> gen, hooks |-> hooks, breadcrumbs |-> breadcrumbs,
       ultra |-> ultra, obs |-> obs ]

\* The next state is the world w.
Becomes(w) ==
    /\ now' = w.now /\ cfg' = w.cfg /\ store' = w.store /\ dock' = w.dock
    /\ plugin' = w.plugin
    /\ project' = w.project
    /\ started' = w.started /\ appProps' = w.appProps
    /\ LOG_DIR' = w.LOG_DIR /\ LOG_FILE' = w.LOG_FILE
    /\ ERR_PATH' = w.ERR_PATH /\ JSON_PATH' = w.JSON_PATH
    /\ latest' = w.latest /\ handlers' = w.handlers
    /\ khandlers' = w.khandlers /\ closedH' = w.closedH
    /\ memBuf' = w.memBuf /\ jh' = w.jh /\ tap' = w.tap
    /\ last_log_emit' = w.last_log_emit
    /\ watchdog_warned' = w.watchdog_warned
    /\ timers' = w.timers /\ COALESCE' = w.COALESCE
    /\ rlBuckets' = w.rlBuckets /\ files' = w.files
    /\ console' = w.console /\ subs' = w.subs
    /\ excepthook' = w.excepthook /\ stderr' = w.stderr
    /\ stdout' = w.stdout /\ gen' = w.gen /\ hooks' = w.hooks
    /\ breadcrumbs' = w.breadcrumbs /\ ultra' = w.ultra /\ obs' = w.obs

\* ------------------------------------------------------------------------
\* Small helpers: finite maps with a growing domain
\* ------------------------------------------------------------------------
EmptyMap == [x \in {} |-> 0]
Get(f, k, d) == IF k \in DOMAIN f THEN f[k] ELSE d
Put(f, k, v) == [x \in (DOMAIN f) \cup {k} |-> IF x = k THEN v ELSE f[x]]
Min(a, b) == IF a <= b THEN a ELSE b
Max(a, b) == IF a >= b THEN a ELSE b

NoPath == [k |-> "none"]
NoTimer == [active |-> FALSE]

\* A log record: level, formatted message (record.getMessage()) and the
\* unformatted record.msg, which is the key of the bootstrap's rate limiter.
Rec(lvl, msg) == [lvl |-> lvl, msg |-> msg, tk |-> [t |-> msg.t]]
\* A record logged with an already formatted text (an f-string, or no args).
RecF(lvl, msg) == [lvl |-> lvl, msg |-> msg, tk |-> msg]

\* Append a line to the file at path p (open(p, "a")).
WriteLine(fs, p, line) == Put(fs, p, Append(Get(fs, p, <<>>), line))
\* Append several lines.
WriteLines(fs, p, lines) == Put(fs, p, Get(fs, p, <<>>) \o lines)

\* ------------------------------------------------------------------------
\* Messages: what the filters and slots test in a text
\* ------------------------------------------------------------------------
\* "Traceback" in s
HasTraceback(msg) == msg.t \in {"procfail", "pyexc"}
\* "QGISMonitorPro" in s
HasMonitorTag(msg) == msg.t \in {"health_started"}
\* s.startswith("[stderr]")
StartsStderr(msg) == msg.t = "stderr"
\* "[stderr]" in s
HasStderr(msg) == msg.t = "stderr" \/ (msg.t = "qgis" /\ msg.of.t = "stderr")
\* any(pat in msg for pat in _NOISE_PATTERNS)
IsNoise(msg) == msg.t = "noise"
\* str(tag).lower().startswith("qgismonitorpro")
TagIsOurs(tag) == tag = MONITOR_TAG

\* _coalesce_key: (levelno, message with the query of a URL cut off)
CoalesceKey(rec) ==
    << rec.lvl, IF rec.msg.t = "http" THEN [rec.msg EXCEPT !.query = ""] ELSE rec.msg >>

\* _COALESCE, a dict in insertion order: the entries [key, cnt, last].
\* _COALESCE.get(key, (0, 0.0))
CoGet(c, key) ==
    LET hit == SelectSeq(c, LAMBDA e: e.key = key)
    IN IF hit = <<>> THEN [key |-> key, cnt |-> 0, last |-> 0] ELSE hit[1]
\* _COALESCE[key] = (cnt, last)
CoPut(c, key, cnt, last) ==
    LET e == [key |-> key, cnt |-> cnt, last |-> last]
    IN IF \E i \in 1..Len(c) : c[i].key = key
       THEN [i \in 1..Len(c) |-> IF c[i].key = key THEN e ELSE c[i]]
       ELSE Append(c, e)

\* QGISLogHandler.MAP.get(levelno, Qgis.Info)
QgisLevel(lvl) ==
    IF lvl = ERROR THEN QCritical ELSE IF lvl = WARNING THEN QWarning ELSE QInfo

\* A formatted line of a text log, and a line of a JSON lines log.
Line(rec) == [f |-> "line", lvl |-> rec.lvl, msg |-> rec.msg]
JsonLine(rec) == [f |-> "json", lvl |-> rec.lvl, msg |-> rec.msg]

\* ------------------------------------------------------------------------
\* Filters
\* ------------------------------------------------------------------------
\* RateLimitFilter.filter on a deque dq at time t: the deque afterwards.
\* dq.append(now); while dq and now - dq[0] > 1.0: dq.popleft()
RateDeque(dq, t) ==
    LET F(x) == ~(t - x > RateWindow) IN SelectSeq(Append(dq, t), F)

\* EngineRateLimit accepting one record less than per_sec
EngineRateLimitStrict(dq, t, lvl, per_sec) ==
    [ok |-> Len(RateDeque(dq, t)) < per_sec, dq |-> RateDeque(dq, t)]

\* qgis_monitor.RateLimitFilter (module level): key is record.getMessage().
EngineRateLimit(dq, t, lvl, per_sec) ==
    [ok |-> Len(RateDeque(dq, t)) <= per_sec, dq |-> RateDeque(dq, t)]

\* ultra_logger.RateLimitFilter: records at WARNING or above always pass and
\* are not counted.
UltraRateLimit(dq, t, lvl, per_sec) ==
    IF lvl >= WARNING THEN [ok |-> TRUE, dq |-> dq]
    ELSE [ok |-> Len(RateDeque(dq, t)) <= per_sec, dq |-> RateDeque(dq, t)]

\* RateLimitFilter of _qmp_enhance_bootstrap: key is record.msg.
BootRateLimit(w, f, rec) ==
    LET b  == Get(w.rlBuckets, f.id, EmptyMap)
        r  == EngineRateLimit(Get(b, rec.tk, <<>>), w.now, rec.lvl, f.per_sec)
    IN [ok |-> r.ok,
        w  |-> [w EXCEPT !.rlBuckets = Put(@, f.id, Put(b, rec.tk, r.dq))]]

\* qgis_monitor.RateLimitFilter(per_sec).filter(record) of the instance
\* with the buckets rlBuckets[id]: [ok, w]
ModuleRateLimit(w, id, per_sec, rec) ==
    LET b == Get(w.rlBuckets, id, EmptyMap)
        Kept(r) == [ok |-> r.ok,
                    w  |-> [w EXCEPT !.rlBuckets = Put(@, id, Put(b, rec.msg, r.dq))]]
    IN Kept(EngineRateLimit(Get(b, rec.msg, <<>>), w.now, rec.lvl, per_sec))

\* ultra_logger.RateLimitFilter(per_sec).filter(record) of the instance
\* with the buckets ultra.buckets[ch]: [ok, w]
UltraFilter(w, ch, per_sec, rec) ==
    LET b == w.ultra.buckets[ch]
        Kept(r) == [ok |-> r.ok,
                    w  |-> [w EXCEPT !.ultra.buckets[ch] = Put(b, rec.msg, r.dq)]]
    IN Kept(UltraRateLimit(Get(b, rec.msg, <<>>), w.now, rec.lvl, per_sec))

\* QtNoiseFilter.filter
QtNoiseFilter(w, rec) ==
    IF ~w.cfg.mute_qt_noise THEN TRUE
    ELSE IF rec.lvl < WARNING THEN TRUE
    ELSE ~IsNoise(rec.msg)

\* ------------------------------------------------------------------------
\* The logger: Logger.handle, callHandlers, Handler.handle, the emitters
\* ------------------------------------------------------------------------
RECURSIVE LoggerLog(_, _), CallHandlers(_, _, _), HandlerHandle(_, _, _),
          RunFilters(_, _, _, _), FilterOne(_, _, _), CoalesceFilter(_, _),
          Emit(_, _, _), ConsoleLog(_, _, _, _), Dispatch(_, _, _),
          Slot(_, _, _), StderrWrite(_, _), KernelLog(_, _)

\* CoalesceFilter.filter: [ok, w]
CoalesceFilter(w, rec) ==
    IF ~w.cfg.coalesce_enabled THEN [ok |-> TRUE, w |-> w]
    ELSE
      LET win == w.cfg.coalesce_window_ms
          key == CoalesceKey(rec)
          e   == CoGet(w.COALESCE, key)
      IN IF w.now - e.last <= win
         THEN [ok |-> FALSE,
               w  |-> [w EXCEPT !.COALESCE = CoPut(@, key, e.cnt + 1, e.last)]]
         ELSE
           [ok |-> TRUE,
            w  |-> [(IF e.cnt > 0
                     THEN LoggerLog(w, Rec(INFO, [t |-> "coalesce_prev",
                                                   cnt |-> e.cnt, of |-> key[2]]))
                     ELSE w)
                    EXCEPT !.COALESCE = CoPut(@, key, 0, w.now)]]

FilterOne(w, f, rec) ==
    CASE f.kind = "ErrOnly"   -> [ok |-> rec.lvl >= ERROR, w |-> w]
      [] f.kind = "Coalesce"  -> CoalesceFilter(w, rec)
      [] f.kind = "QtNoise"   -> [ok |-> QtNoiseFilter(w, rec), w |-> w]
      [] f.kind = "RateLimit" -> BootRateLimit(w, f, rec)

\* Filterer.filter: the filters in order, stopping at the first that rejects
RunFilters(w, fs, rec, j) ==
    IF j > Len(fs) THEN [ok |-> TRUE, w |-> w]
    ELSE LET Rest(r) == IF r.ok THEN RunFilters(r.w, fs, rec, j + 1)
                        ELSE [ok |-> FALSE, w |-> r.w]
         IN Rest(FilterOne(w, fs[j], rec))

\* sys.stderr.write(s)
StderrWrite(w, msg) ==
    CASE w.stderr.kind = "engine" ->
           \* _ErrStream.write
           IF StartsStderr(msg) \/ HasMonitorTag(msg) \/ HasTraceback(msg) THEN w
           ELSE LoggerLog(w, RecF(ERROR, [t |-> "stderr", of |-> msg]))
      [] w.stderr.kind = "ultra" ->
           \* _StreamRedirect(logging.ERROR).write; with no handler on the
           \* logger the record comes back here through logging.lastResort
           \* until the RecursionError that write swallows: nothing is kept
           IF w.handlers = <<>> THEN w
           ELSE LoggerLog(w, RecF(ERROR, msg))
      [] w.stderr.kind = "none" ->
           \* sys.stderr is None: nothing is written
           w
      [] OTHER ->
           [w EXCEPT !.files = WriteLine(@, [k |-> "stderr"], msg)]

\* a record on the kernel logger "QGISKernelCore"
KernelLog(w, rec) == CallHandlers(w, w.khandlers, rec)

\* on_msg that tells its own messages by the "[QGIS/" prefix of the text
\* and not by the tag
SlotSkipsPrefixed(w, s, e) ==
    CASE s.kind = "on_msg" ->
           IF e.msg.t = "qgis" THEN w
           ELSE IF HasStderr(e.msg) \/ HasTraceback(e.msg) THEN w
           ELSE LoggerLog(w, RecF(IF e.lvl >= 2 THEN ERROR
                                  ELSE IF e.lvl = 1 THEN WARNING ELSE INFO,
                                  [t |-> "qgis", tag |-> e.tag, of |-> e.msg]))
      [] s.kind = "kernel" ->
           KernelLog(w, Rec(IF e.lvl = QCritical THEN CRITICAL
                            ELSE IF e.lvl = QWarning THEN WARNING ELSE INFO,
                            [t |-> "qgis", tag |-> e.tag, of |-> e.msg]))

\* a slot connected to messageReceived(message, tag, level)
Slot(w, s, e) ==
    CASE s.kind = "on_msg" ->
           \* _qmp_enhance_bootstrap.on_msg
           IF TagIsOurs(e.tag) THEN w
           ELSE IF HasStderr(e.msg) \/ HasTraceback(e.msg) THEN w
           ELSE LoggerLog(w, RecF(IF e.lvl >= 2 THEN ERROR
                                  ELSE IF e.lvl = 1 THEN WARNING ELSE INFO,
                                  [t |-> "qgis", tag |-> e.tag, of |-> e.msg]))
      [] s.kind = "kernel" ->
           \* ultra_logger._kernel_qgis_hook
           KernelLog(w, Rec(IF e.lvl = QCritical THEN CRITICAL
                            ELSE IF e.lvl = QWarning THEN WARNING ELSE INFO,
                            [t |-> "qgis", tag |-> e.tag, of |-> e.msg]))

Dispatch(w, e, i) ==
    IF i > Len(w.subs) THEN w ELSE Dispatch(Slot(w, w.subs[i], e), e, i + 1)

\* QgsMessageLog.logMessage(msg, tag, level): the entry and the broadcast
ConsoleLog(w, msg, tag, qlvl) ==
    LET e == [tag |-> tag, msg |-> msg, lvl |-> qlvl]
    IN Dispatch([w EXCEPT !.console = Append(@, e)], e, 1)

\* Handler.emit of each kind of handler
Emit(w, h, rec) ==
    CASE h.kind = "memh" ->
           \* BufferingHandler.emit, MemoryHandler.shouldFlush and flush
           LET buf == Append(w.memBuf, Line(rec))
           IN IF Len(buf) >= MemCapacity \/ rec.lvl >= INFO
              THEN [w EXCEPT !.memBuf = <<>>,
                             !.files = WriteLines(@, h.path, buf)]
              ELSE [w EXCEPT !.memBuf = buf]
      [] h.kind = "eh" ->
           [w EXCEPT !.files = WriteLine(@, h.path, Line(rec))]
      [] h.kind = "qh" ->
           ConsoleLog(w, rec.msg, MONITOR_TAG, QgisLevel(rec.lvl))
      [] h.kind = "jsonl" ->
           [w EXCEPT !.files = WriteLine(@, h.path, JsonLine(rec))]
      [] h.kind = "queue" ->
           \* QueueHandler.enqueue: put_nowait on the queue it was built with
           IF h.qid = w.ultra.qid /\ Len(w.ultra.queue) < QueueCap
           THEN [w EXCEPT !.ultra.queue = Append(@, [rec |-> rec, lg |-> h.lg]),
                          !.obs.enq = @ + 1]
           ELSE w

\* Handler.handle
HandlerHandle(w, h, rec) ==
    LET Passed(r) == IF r.ok THEN Emit(r.w, h, rec) ELSE r.w
    IN Passed(RunFilters(w, h.filters, rec, 1))

\* Logger.callHandlers over the handler list hs
CallHandlers(w, hs, rec) ==
    IF hs = <<>> THEN w
    ELSE CallHandlers(IF rec.lvl >= Head(hs).level
                      THEN HandlerHandle(w, Head(hs), rec) ELSE w,
                      Tail(hs), rec)

\* logger.log(level, ...) on the logger "QGISMonitorPro": the logger's filter
\* (_WatchdogTap), its handlers, and logging.lastResort when it has none
LoggerLog(w, rec) ==
    LET Handle(w1) ==
            IF w1.handlers = <<>>
            THEN IF rec.lvl >= WARNING THEN StderrWrite(w1, rec.msg) ELSE w1
            ELSE CallHandlers(w1, w1.handlers, rec)
    IN Handle(IF w.tap # 0 THEN [w EXCEPT !.last_log_emit = w.now] ELSE w)

RECURSIVE LogAll(_, _)
\* several records in a row
LogAll(w, recs) ==
    IF recs = <<>> THEN w ELSE LogAll(LoggerLog(w, Head(recs)), Tail(recs))

\* ------------------------------------------------------------------------
\* The monitoring engine (qgis_monitor.py)
\* ------------------------------------------------------------------------
\* datetime.now(timezone.utc).strftime("%Y%m%d_%H%M%S"): the clock cut to
\* whole seconds
Timestamp(t) == t \div 1000

\* _project_suffix: "_" + sanitized base name, "_no_project" without one
ProjectSuffix(name) ==
    CASE name = ""    -> "_no_project"
      [] name = "a b" -> "_a_b"
      [] name = "a_b" -> "_a_b"
      [] OTHER        -> "_other"

\* utils.get_log_dir
GetLogDir(w) == IF w.cfg.log_dir = "" THEN "auto" ELSE w.cfg.log_dir

\* FilePath with the timestamp left out of the name
FilePathNoStamp(kind, dir, ts, sfx) == [k |-> kind, dir |-> dir, ts |-> 0, sfx |-> sfx]

\* os.path.join(LOG_DIR, f"qgis_{kind}_{ts}{suffix}.log")
FilePath(kind, dir, ts, sfx) == [k |-> kind, dir |-> dir, ts |-> ts, sfx |-> sfx]

\* logger.removeHandler(h); h.close() for every handler of the logger
\* "QGISMonitorPro"; closing the MemoryHandler flushes it into its target
RemoveAndCloseAll(w) ==
    LET mems == SelectSeq(w.handlers, LAMBDA h: h.kind = "memh")
        fs1  == IF mems # <<>> THEN WriteLines(w.files, mems[1].path, w.memBuf)
                ELSE w.files
    IN [w EXCEPT !.handlers = <<>>,
                 !.files = fs1,
                 !.memBuf = IF mems # <<>> THEN <<>> ELSE @,
                 !.closedH = @ \cup { <<w.handlers[i].kind, w.handlers[i].id>> :
                                       i \in 1..Len(w.handlers) }]

\* _qmp_enhance_bootstrap
Bootstrap(w) ==
    LET id       == w.gen + 1
        log_dir  == IF w.LOG_DIR = "none" THEN "cwd" ELSE w.LOG_DIR
        derived  == IF w.LOG_FILE # NoPath
                    THEN FilePath("json", log_dir, w.LOG_FILE.ts, w.LOG_FILE.sfx)
                    ELSE FilePath("json", log_dir, Timestamp(w.now), "")
        json_path == IF w.JSON_PATH = NoPath THEN derived ELSE w.JSON_PATH
        \* "_jsonlhandler".startswith("jsonl") is False: a handler is added
        \* on every call
        jsonl    == [id |-> id, kind |-> "jsonl", owner |-> "engine",
                     level |-> DEBUG, filters |-> <<>>, path |-> json_path,
                     qid |-> 0, lg |-> "main"]
        hs1      == Append(w.handlers, jsonl)
        rlf      == [kind |-> "RateLimit", id |-> id, per_sec |-> BootPerSec]
        hs2      == [i \in 1..Len(hs1) |->
                        [hs1[i] EXCEPT !.filters = Append(@, rlf)]]
        cur      == Put(Get(w.latest, log_dir, EmptyMap), "JSON", json_path)
    IN [w EXCEPT !.gen = id,
                 !.JSON_PATH = json_path,
                 !.handlers = hs2,
                 !.excepthook = [kind |-> "engine", id |-> id],
                 !.stderr = [kind |-> "engine", id |-> id],
                 !.subs = Append(@, [kind |-> "on_msg", id |-> id]),
                 !.latest = Put(@, log_dir, cur)]

\* _setup_paths, paths being app.property("qgismonitor_paths") if reuse
\* else None
ResolvePaths(w, reuse, cached) ==
    LET dir    == GetLogDir(w)
        sfx    == ProjectSuffix(w.project)
        ts     == Timestamp(w.now)
        fresh  == [LOG_FILE  |-> FilePath("full", dir, ts, sfx),
                   ERR_PATH  |-> FilePath("errors", dir, ts, sfx),
                   JSON_PATH |-> IF w.cfg.json_parallel
                                 THEN FilePath("fulljsonl", dir, ts, sfx)
                                 ELSE NoPath]
        use    == IF reuse /\ cached # EmptyMap THEN cached ELSE fresh
    IN LoggerLog([w EXCEPT !.LOG_DIR = dir,
                           !.LOG_FILE = use.LOG_FILE,
                           !.ERR_PATH = use.ERR_PATH,
                           !.JSON_PATH = use.JSON_PATH,
                           !.appProps.paths =
                               IF reuse /\ cached = EmptyMap THEN fresh ELSE @,
                           !.latest = Put(@, dir,
                               [k \in {"FULL", "ERRORS", "JSON", "STARTED"} |->
                                  CASE k = "FULL"   -> use.LOG_FILE
                                    [] k = "ERRORS" -> use.ERR_PATH
                                    [] k = "JSON"   -> use.JSON_PATH
                                    [] OTHER        -> [at |-> w.now]]),
                           !.obs.prev = w.obs.cur,
                           !.obs.cur = [set |-> TRUE, reuse |-> reuse,
                                        at |-> w.now, paths |-> use]],
                 Rec(INFO, [t |-> "paths", full |-> use.LOG_FILE,
                            json |-> use.JSON_PATH]))

\* _setup_paths that never reads the cached paths
SetupPathsNoCache(w) ==
    ResolvePaths(w, w.cfg.single_file_session, EmptyMap)

\* _setup_paths
SetupPaths(w) ==
    ResolvePaths(w, w.cfg.single_file_session,
                 IF w.cfg.single_file_session THEN w.appProps.paths ELSE EmptyMap)

\* _install_handlers
InstallHandlers(w) ==
    LET Install(w0) ==
      LET
        id   == w0.gen + 1
        co   == [kind |-> "Coalesce", id |-> 0, per_sec |-> 0]
        qn   == [kind |-> "QtNoise", id |-> 0, per_sec |-> 0]
        eo   == [kind |-> "ErrOnly", id |-> 0, per_sec |-> 0]
        memh == [id |-> id, kind |-> "memh", owner |-> "engine",
                 level |-> w0.cfg.level, filters |-> <<co, qn>>,
                 path |-> w0.LOG_FILE, qid |-> 0, lg |-> "main"]
        eh   == [id |-> id, kind |-> "eh", owner |-> "engine",
                 level |-> ERROR, filters |-> <<eo, co, qn>>,
                 path |-> w0.ERR_PATH, qid |-> 0, lg |-> "main"]
        qh   == [id |-> id, kind |-> "qh", owner |-> "engine",
                 level |-> DEBUG, filters |-> <<qn>>,
                 path |-> NoPath, qid |-> 0, lg |-> "main"]
        \* the RotatingFileHandlers and the JsonWriter open their files
        fs1  == WriteLines(WriteLines(w0.files, w0.LOG_FILE, <<>>),
                           w0.ERR_PATH, <<>>)
        fs2  == IF w0.JSON_PATH # NoPath THEN WriteLines(fs1, w0.JSON_PATH, <<>>)
                ELSE fs1
      IN [w0 EXCEPT !.gen = id,
                  !.handlers = <<memh, eh, qh>>,
                  !.memBuf = <<>>,
                  !.files = fs2,
                  !.jh = w0.JSON_PATH,
                  !.tap = id,
                  !.last_log_emit = w0.now,
                  !.watchdog_warned = FALSE]
    IN Install(RemoveAndCloseAll(w))

\* _write_healthcheck
WriteHealthcheck(w) ==
    LogAll(w, << Rec(INFO, [t |-> "health_started"]),
                 Rec(INFO, [t |-> "health_dir"]),
                 Rec(INFO, [t |-> "health_full"]),
                 Rec(INFO, [t |-> "health_errors"]) >>
              \o IF w.JSON_PATH # NoPath THEN << Rec(INFO, [t |-> "health_json"]) >>
                 ELSE <<>>)

\* _connect_canvas, _install_processing_hooks, _connect_project_layer and
\* _connect_tasks, in the order qgismonitor_start calls them
ConnectCanvas(w, iface) ==
    IF ~iface \/ ~w.cfg.hook_canvas THEN w
    ELSE LoggerLog([w EXCEPT !.hooks.canvas = 1],
                   Rec(DEBUG, [t |-> "canvas_hooks"]))

\* _install_processing_hooks that does not look at processing._qgm_wrapped
InstallProcessingHooksUnmarked(w) ==
    IF ~w.cfg.hook_processing THEN w
    ELSE LoggerLog([w EXCEPT !.hooks.wrapped = TRUE,
                             !.hooks.layers = @ + 1,
                             !.hooks.debug_depth = w.cfg.debug_depth],
                   Rec(INFO, [t |-> "processing_hooks"]))

\* _install_processing_hooks: hooks.layers counts the wrappers that were put
\* around processing.run
InstallProcessingHooks(w) ==
    IF ~w.cfg.hook_processing THEN w
    ELSE IF w.hooks.wrapped THEN w
    ELSE LoggerLog([w EXCEPT !.hooks.wrapped = TRUE,
                             !.hooks.layers = @ + 1,
                             !.hooks.debug_depth = w.cfg.debug_depth],
                   Rec(INFO, [t |-> "processing_hooks"]))

ConnectProjectLayer(w) ==
    IF ~w.cfg.hook_project THEN w
    ELSE LoggerLog([w EXCEPT !.hooks.project = @ + 1],
                   Rec(DEBUG, [t |-> "project_hooks"]))

ConnectTasks(w) ==
    IF ~w.cfg.hook_tasks THEN w
    ELSE LoggerLog([w EXCEPT !.hooks.tasks = @ + 1],
                   Rec(DEBUG, [t |-> "task_hooks"]))

Timer(w, interval) == [active |-> TRUE, interval |-> interval, due |-> w.now + interval]

\* the coalesce summary timer of qgismonitor_start
StartCoalesceTimer(w) ==
    IF w.timers.co # NoTimer THEN w
    ELSE [w EXCEPT !.timers.co = Timer(w, Max(2000, w.cfg.coalesce_window_ms))]

\* start_heartbeat
StartHeartbeat(w) ==
    IF w.cfg.heartbeat_sec <= 0 THEN w
    ELSE IF w.timers.hb # NoTimer THEN w
    ELSE [w EXCEPT !.timers.hb = Timer(w, w.cfg.heartbeat_sec * 1000)]

\* idle_sec = max(10, int(get_setting("watchdog_idle_sec", int) or 60))
IdleSec(w) == Max(10, IF w.cfg.watchdog_idle_sec = 0 THEN 60 ELSE w.cfg.watchdog_idle_sec)

\* start_watchdog
StartWatchdog(w) ==
    IF ~w.cfg.watchdog_enabled THEN w
    ELSE [w EXCEPT !.timers.wd =
                       Timer(w, Max(2000, Min(10000, (IdleSec(w) * 1000) \div 3))),
                   !.watchdog_warned = FALSE]

\* stop_heartbeat
StopHeartbeat(w) == [w EXCEPT !.timers.hb = NoTimer]

\* stop_watchdog that leaves the activity filter on the logger
StopWatchdogKeepsFilter(w) == [w EXCEPT !.timers.wd = NoTimer]

\* stop_watchdog
StopWatchdog(w) == [w EXCEPT !.timers.wd = NoTimer, !.tap = 0]

\* qgismonitor_start(iface); iface is whether one is passed
qgismonitor_start(w, iface) ==
    LET Guarded(b) ==
       IF b.started \/ b.appProps.started THEN b
       ELSE
         LET w1 == WriteHealthcheck(InstallHandlers(SetupPaths(
                       [b EXCEPT !.hooks.fault = TRUE])))
             w2 == [w1 EXCEPT !.hooks.quit = @ + 1]
             w3 == ConnectTasks(ConnectProjectLayer(
                       InstallProcessingHooks(ConnectCanvas(w2, iface))))
             w4 == StartWatchdog(StartHeartbeat(StartCoalesceTimer(w3)))
             w5 == LogAll(w4, << Rec(INFO, [t |-> "project_summary"]),
                                 Rec(INFO, [t |-> "monitor_started"]) >>)
             w6 == ConsoleLog(w5, [t |-> "actief"], MONITOR_TAG, QInfo)
         IN [w6 EXCEPT !.started = TRUE, !.appProps.started = TRUE]
    IN Guarded(Bootstrap(w))

\* qgismonitor_start(iface) when a call it does not guard raises: [w, raised].
\* fault "paths": os.makedirs in _setup_paths; "tasks": the host's
\* QgsApplication.taskManager() in _connect_tasks; "console": the host's
\* QgsMessageLog.logMessage at the end; "none": nothing raises
StartFaults == {"none", "paths", "tasks", "console"}

qgismonitor_start_with(w, iface, fault) ==
    LET Paths(b)   == WriteHealthcheck(InstallHandlers(SetupPaths(b)))
        Hooks(w1)  == ConnectProjectLayer(InstallProcessingHooks(
                          ConnectCanvas([w1 EXCEPT !.hooks.quit = @ + 1], iface)))
        Timers(w3) == LogAll(StartWatchdog(StartHeartbeat(StartCoalesceTimer(
                                 ConnectTasks(w3)))),
                             << Rec(INFO, [t |-> "project_summary"]),
                                Rec(INFO, [t |-> "monitor_started"]) >>)
        Done(w5)   == [ConsoleLog(w5, [t |-> "actief"], MONITOR_TAG, QInfo)
                         EXCEPT !.started = TRUE, !.appProps.started = TRUE]
        Begun(w0)  ==
           CASE fault = "paths" -> [w |-> w0, raised |-> TRUE]
             [] fault = "tasks" -> [w |-> Hooks(Paths(w0)), raised |-> TRUE]
             [] fault = "console" -> [w |-> Timers(Hooks(Paths(w0))), raised |-> TRUE]
             [] OTHER -> [w |-> Done(Timers(Hooks(Paths(w0)))), raised |-> FALSE]
        Guarded(b) ==
           IF b.started \/ b.appProps.started THEN [w |-> b, raised |-> FALSE]
           ELSE Begun([b EXCEPT !.hooks.fault = TRUE])
    IN Guarded(Bootstrap(w))

\* qgismonitor_stop
qgismonitor_stop(w) ==
    IF ~w.started THEN w
    ELSE
      LET w1 == StopWatchdog(StopHeartbeat(w))
          w2 == RemoveAndCloseAll([w1 EXCEPT !.timers.co = NoTimer])
          w3 == LoggerLog([w2 EXCEPT !.appProps.started = FALSE],
                          RecF(INFO, [t |-> "monitor_stopped"]))
          w4 == ConsoleLog(w3, [t |-> "gestopt"], MONITOR_TAG, QInfo)
      IN [w4 EXCEPT !.started = FALSE]

\* ------------------------------------------------------------------------
\* Breadcrumbs, webhook, timers and the processing hook of the engine
\* ------------------------------------------------------------------------
\* deque(maxlen=400)
BreadcrumbCap == 400

\* crumb(evt) on a deque that was made without maxlen
crumb_unbounded(w, evt) ==
    LET e == [evt |-> evt, at |-> w.now]
    IN LoggerLog([w EXCEPT !.breadcrumbs = Append(@, e)],
                 Rec(DEBUG, [t |-> "crumb", evt |-> evt]))

\* crumb(evt)
crumb(w, evt) ==
    LET e  == [evt |-> evt, at |-> w.now]
        b1 == Append(w.breadcrumbs, e)
        b2 == IF Len(b1) > BreadcrumbCap THEN Tail(b1) ELSE b1
    IN LoggerLog([w EXCEPT !.breadcrumbs = b2],
                 Rec(DEBUG, [t |-> "crumb", evt |-> evt]))

\* get_recent_breadcrumbs(limit): list(_breadcrumbs)[-lim:]
get_recent_breadcrumbs(w, limit) ==
    LET lim == Max(1, limit)
        n   == Len(w.breadcrumbs)
    IN SubSeq(w.breadcrumbs, n - Min(lim, n) + 1, n)

\* _notify_webhook(event_type, extra) with the network answering net
\* ("ok" or "fail"): [w, raised]; every exception is swallowed
NotifyWebhook(w, event_type, net) ==
    [w |-> IF w.cfg.webhook_url # "" /\ net = "ok"
           THEN [w EXCEPT !.obs.posts = Append(@, event_type)] ELSE w,
     raised |-> FALSE]

\* _watchdog_check
WatchdogCheck(w, net) ==
    IF ~w.cfg.watchdog_enabled THEN w
    ELSE
      LET delta == w.now - w.last_log_emit
      IN IF delta >= IdleSec(w) * 1000
         THEN IF ~w.watchdog_warned
              THEN [NotifyWebhook(
                        crumb(LoggerLog(w, Rec(WARNING, [t |-> "watchdog_idle"])),
                              "watchdog:idle"),
                        "watchdog_idle", net).w
                    EXCEPT !.watchdog_warned = TRUE]
              ELSE w
         ELSE [(IF w.watchdog_warned
                THEN LoggerLog(w, Rec(INFO, [t |-> "watchdog_resumed"]))
                ELSE w)
               EXCEPT !.watchdog_warned = FALSE]

\* _flush_coalesce_summary
FlushCoalesceSummary(w) ==
    LET items == w.COALESCE
        hit   == SelectSeq(items, LAMBDA e: e.cnt > 0)
        recs  == [i \in 1..Len(hit) |->
                    Rec(INFO, [t |-> "coalesce_flush", cnt |-> hit[i].cnt,
                               of |-> hit[i].key[2]])]
    IN IF items = <<>> THEN w
       ELSE LogAll([w EXCEPT !.COALESCE = <<>>], recs)

\* the wrappers run(alg, parameters) and runLoad(alg, parameters) installed
\* by _install_processing_hooks (variant "run" or "load"), around an
\* algorithm that returns ("ok") or raises an Exception ("raise"):
\* [w, raised], raised being "none", "original" or "webhook"
ProcessingRun(w, alg, variant, outcome, net) ==
    LET corr == w.gen + 1
        Params(w1) ==
            IF w.hooks.debug_depth > 0
            THEN LoggerLog(w1, Rec(DEBUG, [t |-> "proc_params", alg |-> alg,
                                           corr |-> corr]))
            ELSE w1
        Notified(n) ==
            [w |-> n.w,
             raised |-> IF n.raised THEN "webhook" ELSE "original",
             corr |-> corr]
        Call(w2) ==
            IF outcome = "ok"
            THEN [w |-> LoggerLog(w2, Rec(INFO, [t |-> "proc_done", v |-> variant,
                                                  alg |-> alg, corr |-> corr])),
                  raised |-> "none", corr |-> corr]
            ELSE Notified(NotifyWebhook(
                     LoggerLog(w2, Rec(ERROR, [t |-> "procfail", v |-> variant,
                                               alg |-> alg, corr |-> corr,
                                               tb |-> TRUE])),
                     "processing_fail", net))
    IN Call(Params(LoggerLog(crumb([w EXCEPT !.gen = corr], "processing:start"),
                             Rec(INFO, [t |-> "proc_start", v |-> variant,
                                        alg |-> alg, corr |-> corr]))))

RECURSIVE ProcessingCall(_, _)
\* processing.run("alg") as the host finds it, for an algorithm that returns:
\* every wrapper around the entry point logs START, calls what it wrapped
\* and logs DONE
ProcessingCall(w, layers) ==
    IF layers = 0 THEN w
    ELSE LET corr == w.gen + 1
             Params(w1) ==
                 IF w.hooks.debug_depth > 0
                 THEN LoggerLog(w1, Rec(DEBUG, [t |-> "proc_params", alg |-> "alg",
                                                corr |-> corr]))
                 ELSE w1
             Done(w2) ==
                 LoggerLog(w2, Rec(INFO, [t |-> "proc_done", v |-> "run",
                                          alg |-> "alg", corr |-> corr]))
         IN Done(ProcessingCall(
                Params(LoggerLog(crumb([w EXCEPT !.gen = corr], "processing:start"),
                                 Rec(INFO, [t |-> "proc_start", v |-> "run",
                                            alg |-> "alg", corr |-> corr]))),
                layers - 1))

\* ------------------------------------------------------------------------
\* Host signals reaching the closures the engine connected
\* ------------------------------------------------------------------------
EventKinds == {"saved", "cleared", "task", "canvas", "processing", "message"}
OtherTag == "Processing"

\* the record one closure logs for a signal
EventRec(kind) ==
    CASE kind = "saved"   -> Rec(INFO, [t |-> "project_saved"])
      [] kind = "cleared" -> Rec(WARNING, [t |-> "project_cleared"])
      [] kind = "task"    -> Rec(INFO, [t |-> "task_added"])
      [] kind = "canvas"  -> Rec(INFO, [t |-> "canvas_scale"])
      [] kind = "processing" -> Rec(INFO, [t |-> "proc_start"])
      [] OTHER -> Rec(INFO, [t |-> "qgis"])

\* on_saved, on_cleared (_connect_project_layer), on_added (_connect_tasks)
\* and _scale (_connect_canvas)
HookSlot(w, kind) ==
    LoggerLog(crumb(w, kind), EventRec(kind))

\* a signal runs every closure connected to it, n of them
RECURSIVE EmitSignal(_, _, _)
EmitSignal(w, kind, n) ==
    IF n = 0 THEN w ELSE EmitSignal(HookSlot(w, kind), kind, n - 1)

\* the host emits projectSaved or cleared, taskAdded, scaleChanged, runs
\* processing.run, or publishes a message of another component
host_event(w, kind) ==
    CASE kind \in {"saved", "cleared"} -> EmitSignal(w, kind, w.hooks.project)
      [] kind = "task" -> EmitSignal(w, kind, w.hooks.tasks)
      [] kind = "canvas" -> EmitSignal(w, kind, w.hooks.canvas)
      [] kind = "processing" ->
           ProcessingCall(w, w.hooks.layers)
      [] OTHER -> ConsoleLog(w, [t |-> "hostmsg"], OtherTag, QInfo)

\* the lines of the full log that the closures of a signal wrote
EventLines(w, kind) ==
    Cardinality({ k \in 1..Len(Get(w.files, w.LOG_FILE, <<>>)) :
                    Get(w.files, w.LOG_FILE, <<>>)[k].msg.t = EventRec(kind).msg.t })

\* ------------------------------------------------------------------------
\* The ultra logger (ultra_logger.py)
\* ------------------------------------------------------------------------
\* cfg["rate_limit"] default
UltraPerSec == 60
\* cfg["coalesce_sec"] default, ms
UltraCoalesceMs == 1000

NoListener == [active |-> FALSE]

UltraPath(name) == [k |-> "ultra", name |-> name]

\* _rotate_session: every non-empty file of a previous session is renamed
RotateSession(w) ==
    LET names == {"qgis_full_ultra.log", "qgis_errors_ultra.log",
                  "qgis_kernel_core.log", "qgis_kernel_errors.log"}
        old   == { n \in names : Get(w.files, UltraPath(n), <<>>) # <<>> }
        kept  == [p \in (DOMAIN w.files) \ { UltraPath(n) : n \in old } |-> w.files[p]]
        moved == [p \in { [k |-> "prev", name |-> n, ts |-> Timestamp(w.now)] : n \in old }
                    |-> w.files[UltraPath(p.name)]]
    IN [w EXCEPT !.files = [p \in (DOMAIN kept) \cup (DOMAIN moved) |->
                               IF p \in DOMAIN moved THEN moved[p] ELSE kept[p]]]

\* ultra_logger.CoalesceFilter.filter on _LAST: [ok, last]
UltraCoalesce(last, t, rec, window) ==
    LET e == Get(last, rec.lvl, [set |-> FALSE])
    IN IF e.set /\ e.msg = rec.msg /\ (t - e.at) <= window
       THEN [ok |-> FALSE, last |-> last]
       ELSE [ok |-> TRUE,
             last |-> Put(last, rec.lvl, [set |-> TRUE, msg |-> rec.msg, at |-> t])]

\* QueueListener.handle(record) with respect_handler_level: the listener's
\* full handler (level DEBUG; rate limiter, coalesce filter) and its errors
\* handler (level ERROR; the same rate limiter)
ListenerHandle(w, item) ==
    LET l    == w.ultra.listener
        rec  == item.rec
        \* fh: rlf then cf
        r1   == UltraRateLimit(Get(w.ultra.buckets[l.ch], rec.msg, <<>>),
                               w.now, rec.lvl, UltraPerSec)
        b1   == Put(w.ultra.buckets[l.ch], rec.msg, r1.dq)
        c1   == IF r1.ok THEN UltraCoalesce(w.ultra.last, w.now, rec, UltraCoalesceMs)
                ELSE [ok |-> FALSE, last |-> w.ultra.last]
        fs1  == IF r1.ok /\ c1.ok THEN WriteLine(w.files, l.full, Line(rec))
                ELSE w.files
        \* eh: rlf
        r2   == IF rec.lvl >= ERROR
                THEN UltraRateLimit(Get(b1, rec.msg, <<>>), w.now, rec.lvl, UltraPerSec)
                ELSE [ok |-> FALSE, dq |-> Get(b1, rec.msg, <<>>)]
        b2   == IF rec.lvl >= ERROR THEN Put(b1, rec.msg, r2.dq) ELSE b1
        fs2  == IF r2.ok THEN WriteLine(fs1, l.errs, Line(rec)) ELSE fs1
    IN [w EXCEPT !.files = fs2,
                 !.ultra.buckets = [@ EXCEPT ![l.ch] = b2],
                 !.ultra.last = c1.last,
                 !.obs.deliv = @ + 1]

RECURSIVE Drain(_)
\* the listener thread handles every queued record
Drain(w) ==
    IF w.ultra.queue = <<>> THEN w
    ELSE Drain(ListenerHandle([w EXCEPT !.ultra.queue = Tail(@)],
                              Head(w.ultra.queue)))

\* try: _LISTENER.stop() except Exception: pass. QueueListener.stop() puts
\* the sentinel behind the records with put_nowait and joins the thread; on
\* a full queue put_nowait raises queue.Full, which the caller swallows, and
\* the thread is not joined
ListenerStop(w) ==
    IF ~w.ultra.listener.active THEN w
    ELSE IF Len(w.ultra.queue) >= QueueCap
         THEN [w EXCEPT !.ultra.listener = NoListener]
         ELSE [Drain(w) EXCEPT !.ultra.listener = NoListener]

\* _build_handlers(cfg, for_kernel) and _attach_queue_handlers(logger_obj, fh, eh)
AttachQueueHandlers(w, lg) ==
    LET id   == w.gen + 1
        qid  == IF w.ultra.qid = 0 THEN id ELSE w.ultra.qid
        full == UltraPath(IF lg = "kernel" THEN "qgis_kernel_core.log"
                          ELSE "qgis_full_ultra.log")
        errs == UltraPath(IF lg = "kernel" THEN "qgis_kernel_errors.log"
                          ELSE "qgis_errors_ultra.log")
        qh   == [id |-> id, kind |-> "queue", owner |-> "ultra", level |-> 0,
                 filters |-> <<>>, path |-> NoPath, qid |-> qid, lg |-> lg]
        \* _QUEUE is created once; the RotatingFileHandlers open their files
        Build(w0) ==
            [w0 EXCEPT !.gen = id,
                       !.ultra.qid = qid,
                       !.ultra.queue = IF w.ultra.qid = 0 THEN <<>> ELSE @,
                       !.files = WriteLines(WriteLines(@, full, <<>>), errs, <<>>),
                       !.ultra.buckets = [@ EXCEPT ![lg] = EmptyMap]]
        Replace(w1) ==
            IF lg = "kernel"
            THEN [w1 EXCEPT !.khandlers = <<qh>>,
                            !.closedH = @ \cup { <<w1.khandlers[i].kind, w1.khandlers[i].id>> :
                                                 i \in 1..Len(w1.khandlers) }]
            ELSE [RemoveAndCloseAll(w1) EXCEPT !.handlers = <<qh>>]
    IN [ListenerStop(Replace(Build(w))) EXCEPT !.ultra.listener =
           [active |-> TRUE, ch |-> lg, full |-> full, errs |-> errs]]

\* ultra_logger.start(config); config gives kernel_enable and capture_stdout
ultra_start(w, config) ==
    LET Kernel(w1) ==
            IF config.kernel_enable
            THEN [AttachQueueHandlers(w1, "kernel") EXCEPT
                     !.subs = Append(@, [kind |-> "kernel", id |-> 0])]
            ELSE w1
        Capture(w3) ==
            IF config.capture_stdout
            THEN [w3 EXCEPT !.ultra.stdout_orig = w3.stdout,
                            !.ultra.stderr_orig = w3.stderr,
                            !.stdout = [kind |-> "ultra", id |-> w3.gen],
                            !.stderr = [kind |-> "ultra", id |-> w3.gen]]
            ELSE w3
        Faulthandler(w4) ==
            IF ~w4.hooks.fault
            THEN LoggerLog([w4 EXCEPT !.hooks.fault = TRUE],
                           Rec(INFO, [t |-> "crashlog"]))
            ELSE w4
    IN IF w.ultra.started THEN w
       ELSE LogAll([Faulthandler(Capture(
                       [Kernel(AttachQueueHandlers(RotateSession(w), "main"))
                        EXCEPT !.excepthook = [kind |-> "ultra", id |-> 0]]))
                    EXCEPT !.ultra.started = TRUE],
                   << RecF(INFO, [t |-> "probe_full"]),
                      RecF(ERROR, [t |-> "probe_errors"]) >>)

NoStream == [kind |-> "none", id |-> 0]

\* remove the first connection of a slot of the given kind
Disconnect(ss, kind) ==
    IF \E i \in 1..Len(ss) : ss[i].kind = kind
    THEN LET i == CHOOSE i \in 1..Len(ss) :
                     ss[i].kind = kind /\ \A j \in 1..(i - 1) : ss[j].kind # kind
         IN SubSeq(ss, 1, i - 1) \o SubSeq(ss, i + 1, Len(ss))
    ELSE ss

\* ultra_logger.stop()
ultra_stop(w) ==
    LET Restore(w1) ==
            [w1 EXCEPT !.stdout = IF w1.ultra.stdout_orig # NoStream
                                  THEN w1.ultra.stdout_orig ELSE @,
                       !.stderr = IF w1.ultra.stderr_orig # NoStream
                                  THEN w1.ultra.stderr_orig ELSE @,
                       !.ultra.stdout_orig = NoStream,
                       !.ultra.stderr_orig = NoStream]
        Detach(w3) ==
            [RemoveAndCloseAll(w3) EXCEPT
                !.khandlers = <<>>,
                !.closedH = @ \cup { <<w3.khandlers[i].kind, w3.khandlers[i].id>> :
                                     i \in 1..Len(w3.khandlers) }]
    IN LoggerLog(
         [Detach([ListenerStop(Restore([w EXCEPT !.subs = Disconnect(@, "kernel")]))
                  EXCEPT !.ultra.qid = 0, !.ultra.queue = <<>>])
          EXCEPT !.hooks.fault = FALSE, !.ultra.started = FALSE],
         RecF(INFO, [t |-> "ultra_stopped"]))

\* ------------------------------------------------------------------------
\* Settings (utils.py). Python values are tagged: None, bool, int, str,
\* float (in thousandths) and a dict
\* ------------------------------------------------------------------------
PyNone == [t |-> "none"]
PyBool(b) == [t |-> "bool", b |-> b]
PyInt(i) == [t |-> "int", i |-> i]
PyStr(x) == [t |-> "str", s |-> x]
PyFloat(m) == [t |-> "float", m |-> m]
PyDict == [t |-> "dict"]

\* the numerals of the model: text, value in thousandths, written with a
\* decimal point or not
Numerals ==
    { [txt |-> "0", m |-> 0, dot |-> FALSE], [txt |-> "1", m |-> 1000, dot |-> FALSE],
      [txt |-> "2", m |-> 2000, dot |-> FALSE], [txt |-> "3", m |-> 3000, dot |-> FALSE],
      [txt |-> "7", m |-> 7000, dot |-> FALSE],
      [txt |-> "50", m |-> 50000, dot |-> FALSE],
      [txt |-> "800", m |-> 800000, dot |-> FALSE],
      [txt |-> "0.0", m |-> 0, dot |-> TRUE], [txt |-> "1.0", m |-> 1000, dot |-> TRUE],
      [txt |-> "2.0", m |-> 2000, dot |-> TRUE], [txt |-> "3.0", m |-> 3000, dot |-> TRUE],
      [txt |-> "7.0", m |-> 7000, dot |-> TRUE],
      [txt |-> "2.5", m |-> 2500, dot |-> TRUE] }

\* str(i) and repr(i) of an int, str(x) and repr(x) of a float
StrOfInt(i) == (CHOOSE n \in Numerals : n.m = i * 1000 /\ ~n.dot).txt
StrOfFloat(m) == (CHOOSE n \in Numerals : n.m = m /\ n.dot).txt

\* type(value): [ok, v], ok FALSE when the constructor raises
Convert(ty, v) ==
    CASE ty = "bool" ->
           [ok |-> TRUE,
            v  |-> PyBool(CASE v.t = "bool" -> v.b
                            [] v.t = "int" -> v.i # 0
                            [] v.t = "str" -> v.s # ""
                            [] v.t = "float" -> v.m # 0
                            [] OTHER -> FALSE)]
      [] ty = "int" ->
           CASE v.t = "bool" -> [ok |-> TRUE, v |-> PyInt(IF v.b THEN 1 ELSE 0)]
             [] v.t = "int" -> [ok |-> TRUE, v |-> v]
             [] v.t = "float" -> [ok |-> TRUE, v |-> PyInt(v.m \div 1000)]
             [] v.t = "str" ->
                  IF \E n \in Numerals : n.txt = v.s /\ ~n.dot
                  THEN [ok |-> TRUE,
                        v  |-> PyInt((CHOOSE n \in Numerals : n.txt = v.s).m \div 1000)]
                  ELSE [ok |-> FALSE, v |-> PyNone]
             [] OTHER -> [ok |-> FALSE, v |-> PyNone]
      [] ty = "float" ->
           CASE v.t = "bool" -> [ok |-> TRUE, v |-> PyFloat(IF v.b THEN 1000 ELSE 0)]
             [] v.t = "int" -> [ok |-> TRUE, v |-> PyFloat(v.i * 1000)]
             [] v.t = "float" -> [ok |-> TRUE, v |-> v]
             [] v.t = "str" ->
                  IF \E n \in Numerals : n.txt = v.s
                  THEN [ok |-> TRUE,
                        v  |-> PyFloat((CHOOSE n \in Numerals : n.txt = v.s).m)]
                  ELSE [ok |-> FALSE, v |-> PyNone]
             [] OTHER -> [ok |-> FALSE, v |-> PyNone]
      [] ty = "str" ->
           [ok |-> TRUE,
            v  |-> PyStr(CASE v.t = "bool" -> IF v.b THEN "True" ELSE "False"
                           [] v.t = "int" -> StrOfInt(v.i)
                           [] v.t = "str" -> v.s
                           [] v.t = "float" -> StrOfFloat(v.m)
                           [] v.t = "none" -> "None"
                           [] OTHER -> "{}")]

\* SETTING_SPECS: a key of each declared type, and the keys of the retention
KeepDefault == 50
TailLines == 800
TailFallback == 300
SETTING_SPECS ==
    [ k \in {"single_file_session", "debug_depth", "log_dir", "coalesce_window_sec",
              "keep_full", "keep_errs", "keep_snap", "compress_old",
              "tail_lines", "prune_on_start"} |->
        CASE k = "single_file_session" -> [default |-> PyBool(TRUE), qt_type |-> "bool"]
          [] k \in {"keep_full", "keep_errs", "keep_snap"} ->
               [default |-> PyInt(KeepDefault), qt_type |-> "int"]
          [] k = "compress_old" -> [default |-> PyBool(FALSE), qt_type |-> "bool"]
          [] k = "prune_on_start" -> [default |-> PyBool(TRUE), qt_type |-> "bool"]
          [] k = "tail_lines" -> [default |-> PyInt(TailLines), qt_type |-> "int"]
          [] k = "debug_depth" -> [default |-> PyInt(1), qt_type |-> "int"]
          [] k = "log_dir" -> [default |-> PyStr(""), qt_type |-> "str"]
          [] k = "coalesce_window_sec" -> [default |-> PyFloat(3000), qt_type |-> "float"] ]

\* SettingSpec.coerce
Coerce(spec, value) ==
    IF value = PyNone THEN spec.default
    ELSE IF Convert(spec.qt_type, value).ok THEN Convert(spec.qt_type, value).v
    ELSE spec.default

\* QSettings.value(key, default, type=ty): the stored value as the type ty.
\* A stored text reads as a bool by its content, not by its length
QtValue(w, key, default, ty) ==
    LET v == Get(w.store, key, default)
    IN IF v.t = ty \/ v = PyNone THEN v
       ELSE IF ty = "bool" /\ v.t = "str"
            THEN PyBool(v.s \notin {"", "0", "false"})
       ELSE IF Convert(ty, v).ok THEN Convert(ty, v).v
       ELSE CASE ty = "int" -> PyInt(0) [] ty = "float" -> PyFloat(0)
              [] OTHER -> PyStr("")

\* get_setting(key) that hands out what the store returns, without a default
get_setting_stored(w, key) ==
    IF key \notin DOMAIN SETTING_SPECS
    THEN Get(w.store, key, PyNone)
    ELSE QtValue(w, key, PyNone, SETTING_SPECS[key].qt_type)

\* get_setting(key)
get_setting(w, key) ==
    IF key \notin DOMAIN SETTING_SPECS
    THEN Get(w.store, key, PyNone)
    ELSE Coerce(SETTING_SPECS[key],
                QtValue(w, key, SETTING_SPECS[key].default, SETTING_SPECS[key].qt_type))

\* set_setting(key, value)
set_setting(w, key, value) ==
    [w EXCEPT !.store =
                 Put(@, key, IF key \in DOMAIN SETTING_SPECS
                             THEN Coerce(SETTING_SPECS[key], value) ELSE value),
              !.obs.lastset = [set |-> TRUE, key |-> key, value |-> value]]

\* load_all_settings()
load_all_settings(w) == [k \in DOMAIN SETTING_SPECS |-> get_setting(w, k)]

\* apply_settings(update) that stores every key of the update
RECURSIVE apply_settings_all(_, _)
apply_settings_all(w, update) ==
    IF DOMAIN update = {} THEN w
    ELSE LET key  == CHOOSE k \in DOMAIN update : TRUE
             rest == [k \in (DOMAIN update) \ {key} |-> update[k]]
         IN apply_settings_all(set_setting(w, key, update[key]), rest)

\* apply_settings(update)
RECURSIVE apply_settings(_, _)
apply_settings(w, update) ==
    IF DOMAIN update = {} THEN w
    ELSE LET key  == CHOOSE k \in DOMAIN update : TRUE
             rest == [k \in (DOMAIN update) \ {key} |-> update[k]]
         IN apply_settings(IF key \in DOMAIN SETTING_SPECS
                           THEN set_setting(w, key, update[key]) ELSE w, rest)

\* json.dump of a value, and json.load of what it wrote. A number is kept
\* as its text: one written with a decimal point loads as a float
JsonDump(v) ==
    CASE v.t = "bool" -> [j |-> IF v.b THEN "true" ELSE "false"]
      [] v.t = "int" -> [j |-> "num", txt |-> StrOfInt(v.i)]
      [] v.t = "float" -> [j |-> "num", txt |-> StrOfFloat(v.m)]
      [] v.t = "str" -> [j |-> "str", s |-> v.s]
      [] v.t = "none" -> [j |-> "null"]
      [] OTHER -> [j |-> "obj"]

JsonLoad(tok) ==
    CASE tok.j = "true" -> PyBool(TRUE)
      [] tok.j = "false" -> PyBool(FALSE)
      [] tok.j = "num" ->
           LET n == CHOOSE x \in Numerals : x.txt = tok.txt
           IN IF n.dot THEN PyFloat(n.m) ELSE PyInt(n.m \div 1000)
      [] tok.j = "str" -> PyStr(tok.s)
      [] tok.j = "null" -> PyNone
      [] OTHER -> PyDict

\* a JSON document is an object (member -> value) or a list
JsonObject(members) == [j |-> "object", members |-> members]
JsonList == [j |-> "list"]

\* export_settings_json(path); fault: mkdir or open raises OSError
export_settings_json(w, path, fault) ==
    IF fault THEN [w EXCEPT !.obs.ret = [set |-> TRUE, kind |-> "return", value |-> FALSE]]
    ELSE [w EXCEPT
            !.files = Put(@, path,
                          << JsonObject([k \in DOMAIN SETTING_SPECS |->
                                           JsonDump(load_all_settings(w)[k])]) >>),
            !.obs.ret = [set |-> TRUE, kind |-> "return", value |-> TRUE]]

\* import_settings_json(path): a missing file and a document that is not an
\* object raise inside the try
import_settings_json(w, path) ==
    LET Returns(x, b) == [x EXCEPT !.obs.ret = [set |-> TRUE, kind |-> "return", value |-> b],
                                   !.obs.imp = [n |-> @.n + 1, ok |-> b]]
    IN IF path \notin DOMAIN w.files \/ w.files[path][1].j # "object"
       THEN Returns(w, FALSE)
       ELSE Returns(apply_settings(w, [k \in DOMAIN w.files[path][1].members |->
                                         JsonLoad(w.files[path][1].members[k])]),
                    TRUE)

\* ------------------------------------------------------------------------
\* Retention (utils.py). A file of the log directory is named by its
\* category, its timestamp, its rotation backup number (0: none, i: ".i")
\* and the number of ".zip" suffixes:
\*   full   qgis_full_<ts>.log[.i][.zip...]     errors qgis_errors_<ts>.log...
\*   jsonl  qgis_full_<ts>.jsonl[.i][.zip...]   json   qgis_json_<ts>.jsonl
\*   tail   crash_snapshots/log_tail_<ts>.log[.zip...]
\* ------------------------------------------------------------------------
LogName(cat, ts, rot, zips) == [k |-> cat, ts |-> ts, rot |-> rot, zips |-> zips]

\* the four calls of _prune_pattern: glob pattern and retention key
Patterns ==
    << [cat |-> "full", exact |-> FALSE, keep |-> "keep_full"],
       [cat |-> "errors", exact |-> FALSE, keep |-> "keep_errs"],
       [cat |-> "tail", exact |-> TRUE, keep |-> "keep_snap"],
       [cat |-> "jsonl", exact |-> FALSE, keep |-> "keep_full"] >>

\* glob.glob(str(directory / pattern)): "log_tail_*.log" has no trailing "*"
Glob(names, pat) ==
    { n \in names : n.k = pat.cat /\ (pat.exact => n.rot = 0 /\ n.zips = 0) }

\* the place of a name in sorted(): by timestamp, then "" < ".1" < ".1.zip"
\* < ".2" < ".zip" < ".zip.zip"
SortKey(n) ==
    n.ts * 100 + (IF n.rot > 0 THEN n.rot * 10 + n.zips
                  ELSE IF n.zips > 0 THEN 90 + n.zips ELSE 0)

\* files[:-keep] for keep > 0, files otherwise
Old(found, keep) ==
    IF keep > 0
    THEN { n \in found : Cardinality({ m \in found : SortKey(m) > SortKey(n) }) >= keep }
    ELSE found

\* path.with_suffix(path.suffix + ".zip")
ZipTarget(n) == [n EXCEPT !.zips = @ + 1]

\* the loop over old, in sorted order: zf.write(path) into the target, then
\* path.unlink()
RECURSIVE PruneEach(_, _, _)
PruneEach(fs, old, compress) ==
    IF old = {} THEN fs
    ELSE LET path == CHOOSE n \in old : \A m \in old : SortKey(n) <= SortKey(m)
             zipped == IF compress
                       THEN Put(fs, ZipTarget(path),
                                << [zip |-> path, content |-> fs[path]] >>)
                       ELSE fs
         IN PruneEach([n \in (DOMAIN zipped) \ {path} |-> zipped[n]],
                      old \ {path}, compress)

\* _prune_pattern(directory, pattern, keep, compress)
prune_pattern(w, pat, keep, compress) ==
    [w EXCEPT !.files = PruneEach(@, Old(Glob(DOMAIN @, pat), keep), compress)]

\* prune_logs_now()
prune_logs_now(w) ==
    LET keep(key) == get_setting(w, key).i
        compress  == get_setting(w, "compress_old").b
        Call(x, i) == prune_pattern(x, Patterns[i], keep(Patterns[i].keep), compress)
    IN Call(Call(Call(Call(w, 1), 2), 3), 4)

\* ------------------------------------------------------------------------
\* Diagnostics (utils.py, qgis_monitor.py). A call returns a value or raises;
\* obs.ret keeps which
\* ------------------------------------------------------------------------
Returned(w, of, value) ==
    [w EXCEPT !.obs.ret = [set |-> TRUE, of |-> of, kind |-> "return", value |-> value]]
Raised(w, of, exc) ==
    [w EXCEPT !.obs.ret = [set |-> TRUE, of |-> of, kind |-> "raise", value |-> exc]]

\* os.path.basename(path)
Basename(p) == [n \in (DOMAIN p) \ {"dir"} |-> p[n]]

\* the last n elements of a list: lines[-n:]
LastLines(lines, n) ==
    IF Len(lines) <= n THEN lines
    ELSE SubSeq(lines, Len(lines) - n + 1, Len(lines))

\* write_diagnostics_txt(out_dir); out_dir "" is None. mkdir_ok: the target
\* directory can be created; write_ok: the report can be written
write_diagnostics_txt(w, out_dir, mkdir_ok, write_ok) ==
    LET of   == "write_diagnostics_txt"
        path == [k |-> "diagnostics",
                 dir |-> IF out_dir = "" THEN GetLogDir(w) ELSE out_dir,
                 ts |-> Timestamp(w.now), sfx |-> ""]
        text == << [f |-> "diagnostics",
                    settings |-> [k \in DOMAIN SETTING_SPECS |->
                                    Convert("str", get_setting(w, k)).v.s]] >>
    IN IF ~mkdir_ok THEN Raised(w, of, "OSError")
       ELSE IF ~write_ok
            THEN Returned(w, of, [error |-> TRUE, path |-> NoPath])
       ELSE Returned([w EXCEPT !.files = Put(@, path, text)], of,
                     [error |-> FALSE, path |-> path])

\* os.path.exists(path); latest.txt of a directory is kept in latest
Exists(w, p) ==
    IF p.k = "latest.txt" THEN p.dir \in DOMAIN w.latest ELSE p \in DOMAIN w.files

\* bundle_logs_zip(zip_path, files, extra_texts); zip_ok: the archive can be
\* written
bundle_logs_zip(w, of, zip_path, paths, extra_texts, zip_ok) ==
    IF ~zip_ok THEN Returned(w, of, FALSE)
    ELSE Returned([w EXCEPT !.files =
                      Put(@, zip_path,
                          << [zip |-> { Basename(paths[i]) :
                                          i \in { j \in DOMAIN paths :
                                                    /\ paths[j] # NoPath
                                                    /\ Exists(w, paths[j]) } }
                                        \cup extra_texts] >>)],
                  of, TRUE)

\* make_diagnostics_zip(out_path)
make_diagnostics_zip(w, out_path, zip_ok) ==
    LET of     == "make_diagnostics_zip"
        found  == SelectSeq(<< w.LOG_FILE, w.ERR_PATH, w.JSON_PATH,
                               [k |-> "latest.txt", dir |-> w.LOG_DIR] >>,
                            LAMBDA p : p # NoPath /\ Exists(w, p))
        tail   == [k |-> "tail", dir |-> w.LOG_DIR, ts |-> Timestamp(w.now), sfx |-> ""]
        hasLog == w.LOG_FILE # NoPath /\ Exists(w, w.LOG_FILE)
        n      == IF get_setting(w, "tail_lines").i = 0 THEN TailFallback
                  ELSE get_setting(w, "tail_lines").i
    IN \* os.path.join(None, "latest.txt") raises TypeError
       IF w.LOG_DIR = "none" THEN Raised(w, of, "TypeError")
       ELSE bundle_logs_zip(
                IF hasLog
                THEN [w EXCEPT !.files = Put(@, tail, LastLines(@[w.LOG_FILE], n))]
                ELSE w,
                of, out_path, found \o (IF hasLog THEN << tail >> ELSE <<>>),
                {[k |-> "env.txt"]}, zip_ok)

\* ------------------------------------------------------------------------
\* Live Log Dock (log_viewer.py). A file is its list of lines, an offset
\* counts lines. A handle keeps reading the file it opened: after the path
\* was given to another file the handle is an orphan and reads the old file
\* ------------------------------------------------------------------------
NoDock == [open |-> FALSE]
NoSession == [set |-> FALSE]

\* _TailSession.open(reset); io.open raises when the file is missing
SessionOpen(w, path, reset) ==
    [set |-> TRUE, path |-> path, orphan |-> FALSE, old |-> <<>>,
     at |-> IF reset THEN 0 ELSE Len(w.files[path]),
     position |-> IF reset THEN 0 ELSE Len(w.files[path]),
     size |-> Len(w.files[path])]

\* _TailSession.read_new: [data, session]; handle.read() continues from
\* where the handle is
ReadNew(w, ses) ==
    LET content == IF ses.orphan THEN ses.old
                   ELSE IF ses.path \notin DOMAIN w.files THEN <<>>
                   ELSE w.files[ses.path]
        data    == IF ses.at < Len(content)
                   THEN SubSeq(content, ses.at + 1, Len(content)) ELSE <<>>
        at      == ses.at + Len(data)
    IN [data |-> data,
        session |-> [ses EXCEPT !.at = at, !.position = at,
                                !.size = IF ses.path \in DOMAIN w.files
                                         THEN Len(w.files[ses.path]) ELSE 0]]

\* the callback the dock was given: the plugin's lambda returns the names
\* LOG_FILE and ERR_PATH that plugin.py imported from qgis_monitor when it
\* was loaded; "live" is a callback that reads qgis_monitor.LOG_FILE
ResolvePath(w) ==
    IF w.dock.get_paths = "plugin" THEN w.dock.imported ELSE w.LOG_FILE

\* LiveLogDock._switch_file(path, reset)
SwitchFile(w, path, reset) ==
    IF path = NoPath THEN w
    ELSE IF path \notin DOMAIN w.files
         THEN [w EXCEPT !.dock.session = NoSession]
    ELSE [w EXCEPT !.dock.session = SessionOpen(w, path, reset),
                   !.dock.current_path = path,
                   \* session.open(reset) runs before self._session = session:
                   \* the handles open at that point
                   !.dock.peak = (IF w.dock.session.set THEN 1 ELSE 0) + 1]

\* LiveLogDock._tick
dock_tick(w) ==
    IF w.dock.paused THEN w
    ELSE LET path == ResolvePath(w)
             w1   == IF path # NoPath /\ path # w.dock.current_path
                        /\ path \in DOMAIN w.files
                     THEN SwitchFile(w, path, FALSE) ELSE w
             ses  == w1.dock.session
             Seen(x, data) ==
                 [x EXCEPT !.obs.tick =
                     [set |-> TRUE, data |-> data,
                      shrunk |-> /\ w.dock.session.set /\ ses.set
                                 /\ ses.path = w.dock.session.path
                                 /\ ses.path \in DOMAIN w.files
                                 /\ Len(w.files[ses.path]) < w.dock.session.size]]
         IN IF ~ses.set THEN Seen(w1, <<>>)
            ELSE Seen([w1 EXCEPT !.dock.session = ReadNew(w1, ses).session,
                                 !.dock.view = @ \o ReadNew(w1, ses).data],
                      ReadNew(w1, ses).data)

\* LiveLogDock._toggle_auto(enabled), the slot of auto_checkbox.toggled
toggle_auto(w, enabled) ==
    [w EXCEPT !.dock.auto = enabled,
              !.dock.timer = enabled /\ ~w.dock.paused]

\* LiveLogDock._toggle_pause that leaves the refresh timer as it is
toggle_pause_keeps_timer(w) == [w EXCEPT !.dock.paused = ~@]

\* LiveLogDock._toggle_pause
toggle_pause(w) ==
    toggle_auto([w EXCEPT !.dock.paused = ~@], w.dock.auto)

\* LiveLogDock._pick_file: the file the user chose in the dialog
pick_file(w, path) ==
    IF path = NoPath THEN w
    ELSE [SwitchFile(w, path, TRUE) EXCEPT !.obs.picked = path,
                                           !.obs.tick = [set |-> FALSE]]

\* LiveLogDock(parent, get_paths); plugin._open_live_view passes
\* lambda: (LOG_FILE, ERR_PATH)
NewDock(w, get_paths) ==
    [w EXCEPT !.dock = [open |-> TRUE, get_paths |-> get_paths, imported |-> NoPath,
                        session |-> NoSession, current_path |-> NoPath,
                        paused |-> FALSE, view |-> <<>>,
                        auto |-> TRUE, timer |-> TRUE, peak |-> 0]]

\* ------------------------------------------------------------------------
\* Plugin Controller (plugin.py)
\* ------------------------------------------------------------------------
NoDialog == [kind |-> "none"]

\* self._log.info(name): a record of the child logger "QGISMonitorPro.UI"
\* goes to the handlers of "QGISMonitorPro", not through its filters
log_action(w, name) ==
    IF w.handlers = <<>> THEN w
    ELSE CallHandlers(w, w.handlers, RecF(INFO, [t |-> "ui", name |-> name]))

\* QgisMonitorProPlugin._toggle_monitor(checked) that does not revert the
\* checked state when the start raises
toggle_monitor_keeps_checked(w, checked, fault) ==
    LET Slot0(x, raised) ==
            Returned(x, "toggle_monitor",
                     [checked |-> checked, raised |-> raised, exc |-> fault])
        Started(r) ==
            IF r.raised
            THEN Slot0([r.w EXCEPT !.plugin.dialog = [kind |-> "critical", text |-> fault]],
                       TRUE)
            ELSE Slot0([r.w EXCEPT !.plugin.bar = [kind |-> "success", text |-> "gestart"]],
                       FALSE)
        Logged(w0) ==
            IF checked THEN Started(qgismonitor_start_with(w0, TRUE, fault))
            ELSE Slot0([qgismonitor_stop(w0) EXCEPT
                          !.plugin.bar = [kind |-> "success", text |-> "gestopt"]],
                       FALSE)
    IN Logged(log_action([w EXCEPT !.plugin.checked = checked], "toggle_monitor"))

\* QgisMonitorProPlugin._toggle_monitor(checked); the click has set the
\* checked state of the action before the slot runs. obs.ret keeps the
\* argument, whether the start raised and the exception
toggle_monitor(w, checked, fault) ==
    LET Slot0(x, raised) ==
            Returned(x, "toggle_monitor",
                     [checked |-> checked, raised |-> raised, exc |-> fault])
        Started(r) ==
            IF r.raised
            THEN Slot0([r.w EXCEPT !.plugin.checked = FALSE,
                                   !.plugin.dialog = [kind |-> "critical", text |-> fault]],
                       TRUE)
            ELSE Slot0([r.w EXCEPT !.plugin.bar = [kind |-> "success", text |-> "gestart"]],
                       FALSE)
        Logged(w0) ==
            IF checked THEN Started(qgismonitor_start_with(w0, TRUE, fault))
            ELSE Slot0([qgismonitor_stop(w0) EXCEPT
                          !.plugin.bar = [kind |-> "success", text |-> "gestopt"]],
                       FALSE)
    IN Logged(log_action([w EXCEPT !.plugin.checked = checked], "toggle_monitor"))

\* QgisMonitorProPlugin._auto_start, the callback of
\* QTimer.singleShot(1000, self._auto_start)
auto_start(w, fault) ==
    LET Started(r) ==
          IF r.raised
          THEN Returned([r.w EXCEPT !.plugin.bar = [kind |-> "warning", text |-> fault]],
                        "auto_start", FALSE)
          ELSE Returned([r.w EXCEPT !.plugin.checked = TRUE,
                                    !.plugin.bar = [kind |-> "info", text |-> "autostart"]],
                        "auto_start", TRUE)
    IN IF w.plugin.checked THEN Returned(w, "auto_start", FALSE)
       ELSE Started(qgismonitor_start_with(w, TRUE, fault))

\* lambda: qgismonitor_start(self.iface), the callback of the
\* QTimer.singleShot(300, ...) of _open_settings; an exception goes to the
\* event loop
restart_later(w, fault) ==
    Returned(qgismonitor_start_with(w, TRUE, fault).w, "restart", TRUE)

\* QgisMonitorProPlugin.initGui: a new toggle action, and the autostart in
\* one second
initGui(w) ==
    Returned([w EXCEPT !.plugin.loaded = TRUE, !.plugin.checked = FALSE,
                       !.plugin.pending = IF w.cfg.autostart
                                          THEN @ \cup {"autostart"} ELSE @],
             "initGui", TRUE)

\* QgisMonitorProPlugin.unload
unload(w) ==
    Returned([qgismonitor_stop(w) EXCEPT !.plugin.loaded = FALSE,
                                         !.plugin.unloaded = TRUE],
             "unload", TRUE)

\* ------------------------------------------------------------------------
\* Settings Dialog (settings_ui.py): the fields of the tab "Logbestanden"
\* ------------------------------------------------------------------------
SpinMin == 5
SpinMax == 5000
DialogKeys == {"log_dir", "keep_full", "compress_old"}

\* SettingsDialog.__init__: each widget takes the stored setting; a
\* QSpinBox keeps its value in setRange(5, 5000)
DialogFields(w) ==
    [k \in DialogKeys |->
       CASE k = "log_dir" ->
              IF get_setting(w, k) \in {PyStr(""), PyNone} THEN PyStr("(auto)")
              ELSE get_setting(w, k)
         [] k = "keep_full" ->
              PyInt(Max(SpinMin, Min(SpinMax, Convert("int", get_setting(w, k)).v.i)))
         [] OTHER -> Convert("bool", get_setting(w, k)).v]

\* SettingsDialog.apply
dialog_apply(w) ==
    LET f == w.plugin.dlg.fields
    IN set_setting(
         set_setting(
           set_setting(w, "log_dir",
                       IF f["log_dir"] = PyStr("(auto)") THEN PyStr("") ELSE f["log_dir"]),
           "keep_full", f["keep_full"]),
         "compress_old", f["compress_old"])

\* QgisMonitorProPlugin._open_settings up to dialog.exec_(): the dialog is
\* built from the store and shown
open_settings(w) ==
    LET Shown(w0) ==
          Returned([w0 EXCEPT !.plugin.dlg = [open |-> TRUE, at |-> w0.store,
                                              fields |-> DialogFields(w0)]],
                   "open_settings", "shown")
    IN Shown(log_action(w, "open_settings"))

\* the user edits a field of the open dialog
dialog_edit(w, key, value) ==
    Returned([w EXCEPT !.plugin.dlg.fields[key] = value], "edit", TRUE)

\* SettingsDialog._import_json with a file chosen
dialog_import_json(w, path) ==
    LET Told(w1) ==
          Returned([w1 EXCEPT !.plugin.dialog =
                                 [kind |-> "information",
                                  text |-> IF w1.obs.ret.value THEN "Import gelukt"
                                           ELSE "Import mislukt"]],
                   "import_json", w1.obs.ret.value)
    IN Told(import_settings_json(w, path))

\* the dialog is cancelled: exec_() returns 0, _open_settings does nothing
dialog_reject(w) ==
    Returned([w EXCEPT !.plugin.dlg.open = FALSE], "open_settings", "cancelled")

\* the dialog is accepted: the rest of _open_settings
dialog_accept(w) ==
    LET Saved(w1) ==
          Returned(IF w1.plugin.checked
                   THEN [qgismonitor_stop(w1) EXCEPT !.plugin.pending = @ \cup {"restart"}]
                   ELSE w1,
                   "open_settings", "accepted")
    IN Saved([dialog_apply(w) EXCEPT
                !.plugin.dlg.open = FALSE,
                !.plugin.dialog = [kind |-> "information", text |-> "opgeslagen"]])

\* ------------------------------------------------------------------------
\* Initial state: the plugin is loaded, nothing was started
\* ------------------------------------------------------------------------
\* utils.SETTING_SPECS defaults (coalesce_window_sec in ms)
DefaultCfg ==
    [ single_file_session |-> TRUE, json_parallel |-> FALSE,
      coalesce_enabled |-> TRUE, coalesce_window_ms |-> 3000,
      mute_qt_noise |-> TRUE, watchdog_enabled |-> TRUE,
      watchdog_idle_sec |-> 90, heartbeat_sec |-> 120, level |-> DEBUG,
      hook_processing |-> TRUE, hook_tasks |-> TRUE, hook_canvas |-> TRUE,
      hook_project |-> TRUE, debug_depth |-> 1, webhook_url |-> "",
      log_dir |-> "", autostart |-> TRUE ]

NoCycle == [set |-> FALSE]

InitWithStore(c, st) ==
    /\ now = Epoch
    /\ cfg = c
    /\ store = st
    /\ dock = NoDock
    /\ plugin = [loaded |-> FALSE, checked |-> FALSE, dialog |-> NoDialog,
                 bar |-> NoDialog, pending |-> {}, unloaded |-> FALSE,
                 dlg |-> [open |-> FALSE, at |-> EmptyMap, fields |-> EmptyMap]]
    /\ project = ""
    /\ started = FALSE
    /\ appProps = [started |-> FALSE, paths |-> EmptyMap]
    /\ LOG_DIR = "none" /\ LOG_FILE = NoPath /\ ERR_PATH = NoPath
    /\ JSON_PATH = NoPath
    /\ latest = EmptyMap
    /\ handlers = <<>> /\ khandlers = <<>> /\ closedH = {}
    /\ memBuf = <<>> /\ jh = NoPath /\ tap = 0
    /\ last_log_emit = 0 /\ watchdog_warned = FALSE
    /\ timers = [hb |-> NoTimer, wd |-> NoTimer, co |-> NoTimer]
    /\ COALESCE = <<>> /\ rlBuckets = EmptyMap
    /\ files = EmptyMap /\ console = <<>> /\ subs = <<>>
    /\ excepthook = [kind |-> "orig", id |-> 0]
    /\ stderr = [kind |-> "orig", id |-> 0]
    /\ stdout = [kind |-> "orig", id |-> 0]
    /\ gen = 0
    /\ hooks = [wrapped |-> FALSE, layers |-> 0, debug_depth |-> 0, canvas |-> 0,
                project |-> 0, tasks |-> 0, quit |-> 0, fault |-> FALSE]
    /\ breadcrumbs = <<>>
    /\ ultra = [started |-> FALSE, qid |-> 0, queue |-> <<>>,
                listener |-> NoListener,
                buckets |-> [main |-> EmptyMap, kernel |-> EmptyMap],
                last |-> EmptyMap,
                stdout_orig |-> NoStream, stderr_orig |-> NoStream]
    /\ obs = [ops |-> 0, prev |-> NoCycle, cur |-> NoCycle, posts |-> <<>>,
              logged |-> <<>>, rate |-> [set |-> FALSE],
              call |-> [set |-> FALSE], batches |-> 0,
              enq |-> 0, deliv |-> 0, before |-> [set |-> FALSE],
              lastset |-> [set |-> FALSE], imp |-> [n |-> 0, ok |-> FALSE],
              ret |-> [set |-> FALSE], prunes |-> 0,
              ev |-> [set |-> FALSE], ptick |-> FALSE, crumbs |-> 0,
              tick |-> [set |-> FALSE], ticks |-> 0, picked |-> NoPath]

InitWith(c) == InitWithStore(c, EmptyMap)

\* one more operation performed
Op(w) == [w EXCEPT !.obs.ops = @ + 1]

\* ------------------------------------------------------------------------
\* Actions
\* ------------------------------------------------------------------------
\* the plugin calls qgismonitor_start(iface)
Start(iface) ==
    /\ obs.ops < MaxOps
    /\ Becomes(Op(qgismonitor_start(W, iface)))

\* the plugin calls qgismonitor_stop()
Stop ==
    /\ obs.ops < MaxOps
    /\ Becomes(Op(qgismonitor_stop(W)))

\* ultra_logger.start(config)
UltraStart(config) ==
    /\ obs.ops < MaxOps
    /\ Becomes(Op(ultra_start(W, config)))

\* ultra_logger.stop()
UltraStop ==
    /\ obs.ops < MaxOps
    /\ Becomes(Op(ultra_stop(W)))

\* the delivery thread of the ultra logger's QueueListener takes one record
UltraDeliver ==
    /\ ultra.listener.active
    /\ ultra.queue # <<>>
    /\ Becomes(ListenerHandle([W EXCEPT !.ultra.queue = Tail(@)], Head(ultra.queue)))

\* some code logs a record on the logger "QGISMonitorPro"
Log(lvl, msg) ==
    /\ obs.ops < MaxOps
    /\ Becomes(Op(LoggerLog(
           [W EXCEPT !.obs.logged =
               Append(@, [rec |-> Rec(lvl, msg), running |-> started, at |-> now,
                          json |-> IF obs.cur.set THEN obs.cur.paths.JSON_PATH
                                   ELSE NoPath])],
           Rec(lvl, msg))))

\* no active timer of the engine is due before the time t: the event loop
\* runs a due timer first
NoTimerBefore(t) ==
    \A k \in {"hb", "wd", "co"} : timers[k].active => t <= timers[k].due

\* the clock moves on by d ms
Advance(d, limit) ==
    /\ now + d <= Epoch + limit
    /\ NoTimerBefore(now + d)
    /\ Becomes([W EXCEPT !.now = @ + d])

\* the network's answer to a webhook post
Nets == {"ok", "fail"}

\* _WATCHDOG_TIMER fires when it is due: _watchdog_check
WatchdogTimeout(limit) ==
    /\ timers.wd.active
    /\ timers.wd.due <= Epoch + limit
    /\ NoTimerBefore(timers.wd.due)
    /\ \E net \in Nets :
          Becomes(WatchdogCheck([W EXCEPT !.now = timers.wd.due,
                                          !.timers.wd.due = @ + timers.wd.interval],
                                net))

\* _COALESCE_TIMER fires when it is due: _flush_coalesce_summary
CoalesceTimeout(limit) ==
    /\ timers.co.active
    /\ timers.co.due <= Epoch + limit
    /\ NoTimerBefore(timers.co.due)
    /\ Becomes(FlushCoalesceSummary([W EXCEPT !.now = timers.co.due,
                                              !.timers.co.due = @ + timers.co.interval]))

\* the user changes a setting (the Settings Dialog is accepted)
SetSetting(c) ==
    /\ c # cfg
    /\ Becomes([W EXCEPT !.cfg = c])

\* the user opens another project, or closes the project
SetProject(p) ==
    /\ p # project
    /\ Becomes([W EXCEPT !.project = p])

\* ------------------------------------------------------------------------
\* Lifecycle specification: the engine and the ultra logger on the shared
\* logger
\* ------------------------------------------------------------------------
UserMsg == [t |-> "user", id |-> 1]

LifeCfgs == { [DefaultCfg EXCEPT !.json_parallel = j] : j \in BOOLEAN }

Init == \E c \in LifeCfgs : InitWith(c)

Next ==
    \/ \E i \in BOOLEAN : Start(i)
    \/ Stop
    \/ \E k \in BOOLEAN : UltraStart([kernel_enable |-> k, capture_stdout |-> TRUE])
    \/ UltraStop
    \/ UltraDeliver
    \/ \E l \in {INFO, ERROR} : Log(l, UserMsg)

Spec == Init /\ [][Next]_vars

\* ------------------------------------------------------------------------
\* Cycle specification: start/stop cycles of the engine over time, with the
\* settings and the project changing between them
\* ------------------------------------------------------------------------
CycleCfgs == { [DefaultCfg EXCEPT !.single_file_session = s, !.json_parallel = j] :
                 s \in BOOLEAN, j \in BOOLEAN }

Projects == {"", "a b"}

CycleInit == \E c \in CycleCfgs : InitWith(c)

CycleNext ==
    \/ Start(TRUE)
    \/ Stop
    \/ \E c \in CycleCfgs : SetSetting(c)
    \/ \E p \in Projects : SetProject(p)
    \/ Advance(500, MaxTime)

SpecCycle == CycleInit /\ [][CycleNext]_vars

\* ------------------------------------------------------------------------
\* Watchdog specification: the engine runs, its watchdog timer fires, and
\* now and then some code logs a record
\* ------------------------------------------------------------------------
WatchdogCfg == [DefaultCfg EXCEPT !.watchdog_idle_sec = 10, !.heartbeat_sec = 0]

WatchdogInit == InitWith(WatchdogCfg)

WatchdogNext ==
    \/ Start(TRUE)
    \/ WatchdogTimeout(WatchdogHorizon)
    \/ CoalesceTimeout(WatchdogHorizon)
    \/ Log(INFO, UserMsg)

SpecWatchdog == WatchdogInit /\ [][WatchdogNext]_vars

\* ------------------------------------------------------------------------
\* Coalescing specification: the engine runs, some code logs the same text
\* again and again, the summary timer fires
\* ------------------------------------------------------------------------
CoalesceInit == InitWith([DefaultCfg EXCEPT !.heartbeat_sec = 0])

CoalesceNext ==
    \/ Start(TRUE)
    \/ \E l \in {INFO, ERROR} : Log(l, UserMsg)
    \/ Advance(1000, CoalesceHorizon)
    \/ CoalesceTimeout(CoalesceHorizon)

SpecCoalesce == CoalesceInit /\ [][CoalesceNext]_vars

\* ------------------------------------------------------------------------
\* Rate limiter specification: one RateLimitFilter of the engine and one of
\* the ultra logger, built with the same limit, filter bursts of records
\* that carry one message
\* ------------------------------------------------------------------------
Limits == {1, 2, UltraPerSec}

BurstSizes == {1, UltraPerSec + 1}

RECURSIVE FilterBurst(_, _)
\* m records at the current time through both filters; obs.rate counts the
\* records and the ones each filter accepted
FilterBurst(w, m) ==
    IF m = 0 THEN w
    ELSE LET rec == Rec(w.obs.rate.lvl, UserMsg)
             Ultra(e) ==
                 LET Counted(u) ==
                         [u.w EXCEPT !.obs.rate.n = @ + 1,
                                     !.obs.rate.accE = @ + (IF e.ok THEN 1 ELSE 0),
                                     !.obs.rate.accU = @ + (IF u.ok THEN 1 ELSE 0),
                                     !.obs.rate.first =
                                         IF w.obs.rate.n = 0 THEN w.now ELSE @]
                 IN Counted(UltraFilter(e.w, "main", w.obs.rate.L, rec))
             Rest(x) == IF x.obs.rate.n > w.obs.rate.n THEN FilterBurst(x, m - 1) ELSE x
         IN Rest(Ultra(ModuleRateLimit(w, 0, w.obs.rate.L, rec)))

\* RateLimitFilter(per_sec=L) is constructed, for records of the level lvl
NewLimiters(L, lvl) ==
    /\ ~obs.rate.set
    /\ Becomes([W EXCEPT !.obs.rate = [set |-> TRUE, L |-> L, lvl |-> lvl, n |-> 0,
                                       first |-> 0, accE |-> 0, accU |-> 0]])

\* m records with the same message arrive
Burst(m) ==
    /\ obs.rate.set
    /\ obs.ops < MaxBursts
    /\ Becomes(Op(FilterBurst(W, m)))

RateInit == InitWith(DefaultCfg)

RateNext ==
    \/ \E L \in Limits, lvl \in {INFO, WARNING} : NewLimiters(L, lvl)
    \/ \E m \in BurstSizes : Burst(m)
    \/ Advance(500, RateHorizon)

SpecRate == RateInit /\ [][RateNext]_vars

\* ------------------------------------------------------------------------
\* Processing specification: a script calls the wrapped processing.run and
\* processing.runAndLoadResults of a started engine
\* ------------------------------------------------------------------------
BatchSizes == {1, BootPerSec + 1}

RECURSIVE RunBatch(_, _, _, _, _)
\* m calls of the wrapper in a loop that catches what a call raises;
\* obs.call keeps the outcome of the last call
RunBatch(w, m, variant, outcome, net) ==
    IF m = 0 THEN w
    ELSE LET Called(r) ==
                 [r.w EXCEPT !.obs.call =
                     [set |-> TRUE, alg |-> "native:buffer", variant |-> variant,
                      outcome |-> outcome, net |-> net, corr |-> r.corr,
                      raised |-> r.raised, path |-> w.LOG_FILE]]
             Rest(x) == IF x.obs.call.set THEN RunBatch(x, m - 1, variant, outcome, net)
                        ELSE x
         IN Rest(Called(ProcessingRun(w, "native:buffer", variant, outcome, net)))

\* a script runs m algorithms through the wrapper
Batch(m, variant, outcome, net) ==
    /\ started /\ hooks.wrapped
    /\ obs.ops < MaxOps
    /\ obs.batches < MaxBatches
    /\ Becomes(Op(RunBatch([W EXCEPT !.obs.batches = @ + 1], m, variant, outcome, net)))

ProcCfgs == { [DefaultCfg EXCEPT !.webhook_url = u, !.heartbeat_sec = 0,
                                 !.watchdog_enabled = FALSE]
              : u \in {"", "https://hook"} }

ProcInit == \E c \in ProcCfgs : InitWith(c)

ProcNext ==
    \/ Start(TRUE)
    \/ \E m \in BatchSizes, v \in {"run", "load"}, o \in {"ok", "raise"}, n \in Nets :
          Batch(m, v, o, n)
    \/ Advance(1000, MaxTime)

SpecProc == ProcInit /\ [][ProcNext]_vars

\* ------------------------------------------------------------------------
\* Flood specification: the ultra logger with a producer thread that logs
\* faster than the delivery worker takes records; in these behaviours the
\* worker is not scheduled between the calls
\* ------------------------------------------------------------------------
\* a producer thread logs the same INFO record on "QGISMonitorPro" until the
\* queue is full. With the QueueHandler as the logger's only handler and no
\* logger filter, each logger.info is one put_nowait (Emit, kind "queue")
LogUntilFull(w) ==
    LET item == [rec |-> Rec(INFO, UserMsg), lg |-> "main"]
        room == QueueCap - Len(w.ultra.queue)
    IN [w EXCEPT !.ultra.queue = @ \o [i \in 1..room |-> item],
                 !.obs.enq = @ + room]

Flood ==
    /\ obs.ops < MaxOps
    /\ ultra.started /\ tap = 0
    /\ Len(handlers) = 1 /\ handlers[1].kind = "queue"
    /\ handlers[1].qid = ultra.qid /\ handlers[1].filters = <<>>
    /\ Len(ultra.queue) < QueueCap
    /\ Becomes(Op(LogUntilFull(W)))

FloodInit == InitWith(DefaultCfg)

FloodNext ==
    \/ \E k \in BOOLEAN, c \in BOOLEAN :
          UltraStart([kernel_enable |-> k, capture_stdout |-> c])
    \/ UltraStop
    \/ \E l \in {INFO, ERROR} : Log(l, UserMsg)
    \/ Flood

SpecFlood == FloodInit /\ [][FloodNext]_vars

\* ------------------------------------------------------------------------
\* Breadcrumbs specification: the hooks of the host leave breadcrumbs, one
\* at a time or in a row, and the plugin reads the most recent ones. The
\* events are numbered in the order they are emitted (obs.crumbs)
\* ------------------------------------------------------------------------
MaxCrumbs == 402
BurstLen == 40
ReadLimits == {0, 20, 500}

RECURSIVE CrumbBurst(_, _)
\* m calls of crumb in a row
CrumbBurst(w, m) ==
    IF m = 0 THEN w
    ELSE LET Rest(x) == IF x.obs.crumbs > w.obs.crumbs THEN CrumbBurst(x, m - 1) ELSE x
             Counted(x) == [x EXCEPT !.obs.crumbs = @ + 1]
         IN Rest(Counted(crumb(w, w.obs.crumbs + 1)))

Crumbs(m) ==
    /\ obs.crumbs + m <= MaxCrumbs
    /\ Becomes(Returned(CrumbBurst(W, m), "crumb", m))

\* plugin._show_breadcrumbs
ReadCrumbs(limit) ==
    /\ obs.crumbs > 0
    /\ ~(obs.ret.set /\ obs.ret.of = "get_recent_breadcrumbs")
    /\ Becomes(Returned(W, "get_recent_breadcrumbs", get_recent_breadcrumbs(W, limit)))

CrumbsInit == InitWith(DefaultCfg)

CrumbsNext ==
    \/ \E m \in {1, BurstLen} : Crumbs(m)
    \/ \E limit \in ReadLimits : ReadCrumbs(limit)

SpecCrumbs == CrumbsInit /\ [][CrumbsNext]_vars

\* ------------------------------------------------------------------------
\* Streams specification: the host binds sys.stdout and sys.stderr, the
\* ultra logger is started and stopped
\* ------------------------------------------------------------------------
\* what the host can bind to sys.stdout or sys.stderr: the interpreter's
\* stream, None (a process without a console), a console widget's writer or
\* the engine's _ErrStream
Streams == { [kind |-> "orig", id |-> 0], NoStream, [kind |-> "host", id |-> 0],
             [kind |-> "engine", id |-> 1] }

\* the host assigns sys.stdout and sys.stderr while the ultra logger is off
SetStreams(out, err) ==
    /\ ~ultra.started
    /\ obs.ops < MaxOps
    /\ Becomes(Op([W EXCEPT !.stdout = out, !.stderr = err,
                            !.obs.before = [set |-> FALSE]]))

\* ultra_logger.start(config), with the streams bound before it remembered
UltraStartFrom(config) ==
    /\ ~ultra.started
    /\ obs.ops < MaxOps
    /\ Becomes(Op(ultra_start(
           [W EXCEPT !.obs.before = [set |-> TRUE, out |-> stdout, err |-> stderr]],
           config)))

StreamsInit == InitWith(DefaultCfg)

StreamsNext ==
    \/ \E out \in Streams, err \in Streams : SetStreams(out, err)
    \/ \E k \in BOOLEAN, c \in BOOLEAN :
          UltraStartFrom([kernel_enable |-> k, capture_stdout |-> c])
    \/ UltraStop
    \/ \E l \in {INFO, ERROR} : Log(l, UserMsg)

SpecStreams == StreamsInit /\ [][StreamsNext]_vars

\* ------------------------------------------------------------------------
\* Claims checked under Spec
\* ------------------------------------------------------------------------
\* a step of qgismonitor_start or qgismonitor_stop
EngineStep == Stop \/ \E i \in BOOLEAN : Start(i)

\* a step of ultra_logger.start or ultra_logger.stop
UltraStep ==
    \/ UltraStop
    \/ \E k \in BOOLEAN : UltraStart([kernel_enable |-> k, capture_stdout |-> TRUE])

\* C1: a call of qgismonitor_start while the engine is Running changes
\* nothing: the handlers of the logger and their filters, the subscriptions
\* to the host message log, sys.excepthook, sys.stderr, JSON_PATH and
\* latest.txt are what they were before the call
C1_StartWhileRunningIsNoOp ==
    [][\A i \in BOOLEAN :
          (started /\ Start(i)) =>
              UNCHANGED <<handlers, tap, subs, excepthook, stderr, JSON_PATH, latest>>]_vars

\* the handler h of the shared logger is still attached and open after the step
KeptByStep(h) ==
    /\ \E j \in 1..Len(handlers') :
          handlers'[j].id = h.id /\ handlers'[j].kind = h.kind
    /\ <<h.kind, h.id>> \notin closedH'

\* C2: while the engine and the ultra logger are both active, no operation
\* of one removes or closes a handler the other installed on the logger
\* "QGISMonitorPro"
C2_NoCrossRemoval ==
    [][(started /\ ultra.started) =>
          \A i \in 1..Len(handlers) :
              /\ (handlers[i].owner = "ultra" /\ EngineStep) => KeptByStep(handlers[i])
              /\ (handlers[i].owner = "engine" /\ UltraStep) => KeptByStep(handlers[i])]_vars

\* the number of lines of the file at p that are the JSON line of rec
JsonCount(p, rec) ==
    Cardinality({ k \in 1..Len(Get(files, p, <<>>)) :
                    Get(files, p, <<>>)[k] = JsonLine(rec) })

\* C9: with json_parallel enabled, every record logged at or above the
\* configured level while the engine is Running is in the JSON file of the
\* LogPaths as exactly one line
C9_OneJsonLinePerRecord ==
    \A i \in 1..Len(obs.logged) :
        LET e == obs.logged[i]
        IN (e.running /\ e.json # NoPath /\ e.rec.lvl >= cfg.level) =>
              JsonCount(e.json, e.rec) =
                  Cardinality({ j \in 1..Len(obs.logged) : obs.logged[j] = e })

\* the file at p has the line of rec
HasLine(p, rec) ==
    \E k \in 1..Len(Get(files, p, <<>>)) : Get(files, p, <<>>)[k] = Line(rec)

\* C10: once the ultra logger is started with the kernel channel and its
\* worker has delivered every queued record, the INFO and the ERROR probe are
\* in qgis_full_ultra.log and the ERROR probe is in qgis_errors_ultra.log
C10_ProbesInPrimaryFiles ==
    (ultra.started /\ khandlers # <<>> /\ ultra.queue = <<>>) =>
        /\ HasLine(UltraPath("qgis_full_ultra.log"), RecF(INFO, [t |-> "probe_full"]))
        /\ HasLine(UltraPath("qgis_full_ultra.log"), RecF(ERROR, [t |-> "probe_errors"]))
        /\ HasLine(UltraPath("qgis_errors_ultra.log"), RecF(ERROR, [t |-> "probe_errors"]))

\* C11: when the ultra logger is stopped, the delivery worker has handled
\* every record that was put on the queue
C11_StopLeavesNothingUndelivered ==
    ~ultra.started => obs.deliv = obs.enq

\* ------------------------------------------------------------------------
\* Claims checked under SpecCycle
\* ------------------------------------------------------------------------
\* C6: with single_file_session true at both, two consecutive start/stop
\* cycles resolve the same full, errors and structured-log paths, whatever
\* ran between them
C6_SingleFileSamePaths ==
    (obs.prev.set /\ obs.cur.set /\ obs.prev.reuse /\ obs.cur.reuse) =>
        obs.cur.paths = obs.prev.paths

\* two cycles in single-file mode, started in different seconds, with a
\* structured-log setting that changed in between
C6_Witness ==
    /\ obs.prev.set /\ obs.cur.set /\ obs.prev.reuse /\ obs.cur.reuse
    /\ obs.cur.at \div 1000 # obs.prev.at \div 1000
    /\ started
    /\ cfg.json_parallel # (obs.cur.paths.JSON_PATH # NoPath)

\* the order of the suffixes as texts: "_a_b" < "_no_project" < "_other"
SuffixRank(sfx) ==
    CASE sfx = "_a_b" -> 1 [] sfx = "_no_project" -> 2 [] OTHER -> 3

\* p < q as texts, for two paths of one kind in one directory: the
\* timestamps have a fixed width, the suffix follows them
PathLess(p, q) ==
    /\ p.k = q.k /\ p.dir = q.dir
    /\ \/ p.ts < q.ts
       \/ p.ts = q.ts /\ SuffixRank(p.sfx) < SuffixRank(q.sfx)

\* the later of two consecutive cycles has the greater full and errors paths
PathsIncrease ==
    /\ PathLess(obs.prev.paths.LOG_FILE, obs.cur.paths.LOG_FILE)
    /\ PathLess(obs.prev.paths.ERR_PATH, obs.cur.paths.ERR_PATH)

\* C7 as stated: with single_file_session false, two consecutive cycles
\* resolve distinct full and errors paths, the later ones lexically
\* greater, for every spacing in time between the two starts
C7_PathsIncreaseAnySpacing ==
    (obs.prev.set /\ obs.cur.set /\ ~obs.prev.reuse /\ ~obs.cur.reuse) =>
        PathsIncrease

\* C7, amended: with single_file_session false, two consecutive cycles
\* started in different UTC seconds resolve distinct full and errors paths,
\* the later ones lexically greater
C7_PathsIncreaseAcrossSeconds ==
    (/\ obs.prev.set /\ obs.cur.set /\ ~obs.prev.reuse /\ ~obs.cur.reuse
     /\ obs.cur.at \div 1000 # obs.prev.at \div 1000) =>
        PathsIncrease

\* two per-session cycles started in different seconds
C7_Witness ==
    /\ obs.prev.set /\ obs.cur.set /\ ~obs.prev.reuse /\ ~obs.cur.reuse
    /\ obs.cur.at \div 1000 # obs.prev.at \div 1000
    /\ started

\* ------------------------------------------------------------------------
\* Claims checked under SpecWatchdog
\* ------------------------------------------------------------------------
\* a text the watchdog itself logs: its warning, its breadcrumb, its
\* "activity resumed" line
FromWatchdog(msg) ==
    \/ msg.t \in {"watchdog_idle", "watchdog_resumed"}
    \/ IF msg.t = "crumb" THEN msg.evt = "watchdog:idle" ELSE FALSE

\* C3: the watchdog warns once per idle episode: between two of its
\* WARNING lines in the full log there is a line that is not its own
C3_OneWarningPerIdleEpisode ==
    LET f == Get(files, LOG_FILE, <<>>)
    IN \A i \in 1..Len(f) : \A j \in (i + 1)..Len(f) :
          (f[i].msg.t = "watchdog_idle" /\ f[j].msg.t = "watchdog_idle") =>
              \E k \in (i + 1)..(j - 1) : ~FromWatchdog(f[k].msg)

\* ------------------------------------------------------------------------
\* Claims checked under SpecCoalesce
\* ------------------------------------------------------------------------
\* all the records logged so far have one (level, message) key, were logged
\* while the engine was Running, and lie within the coalesce window of the
\* first
SameKeyBurst ==
    /\ obs.logged # <<>>
    /\ \A i \in 1..Len(obs.logged) :
          /\ obs.logged[i].rec = obs.logged[1].rec
          /\ obs.logged[i].running
          /\ obs.logged[i].at - obs.logged[1].at <= cfg.coalesce_window_ms

\* the number of lines of the file at p that are the line of rec
LineCount(p, rec) ==
    Cardinality({ k \in 1..Len(Get(files, p, <<>>)) :
                    Get(files, p, <<>>)[k] = Line(rec) })

\* the suppressed counts that the summary lines of the file at p report
\* for the text of rec, in order
Summaries(p, rec) ==
    LET IsSummary(line) ==
            IF line.msg.t \in {"coalesce_flush", "coalesce_prev"}
            THEN line.msg.of = rec.msg ELSE FALSE
        hit == SelectSeq(Get(files, p, <<>>), IsSummary)
    IN [i \in 1..Len(hit) |-> hit[i].msg.cnt]

\* C4: of k records with one (level, message) key within the coalesce
\* window, the full log, and for an ERROR the errors log too, holds exactly
\* one line, and once the suppressed count is flushed the full log holds
\* exactly one summary line, reporting k - 1
C4_OneLinePlusOneSummary ==
    SameKeyBurst =>
        LET rec == obs.logged[1].rec
            k   == Len(obs.logged)
        IN /\ LineCount(LOG_FILE, rec) = 1
           /\ rec.lvl >= ERROR => LineCount(ERR_PATH, rec) = 1
           /\ (k >= 2 /\ CoGet(COALESCE, CoalesceKey(rec)).cnt = 0) =>
                 Summaries(LOG_FILE, rec) = << k - 1 >>

\* ------------------------------------------------------------------------
\* Claims checked under SpecRate
\* ------------------------------------------------------------------------
\* the n records so far all arrived within one second
WithinOneSecond == obs.rate.set /\ obs.rate.n > 0 /\ now - obs.rate.first <= RateWindow

\* C5 as stated: each rate limiter with the limit L has accepted exactly
\* min(n, L) of n records with one message that arrived within one second
C5_AcceptsMinAtAnyLevel ==
    WithinOneSecond =>
        /\ obs.rate.accE = Min(obs.rate.n, obs.rate.L)
        /\ obs.rate.accU = Min(obs.rate.n, obs.rate.L)

\* C5, amended: the engine's rate limiter has accepted exactly min(n, L) of
\* n records with one message that arrived within one second, and so has
\* the ultra logger's when the records are below WARNING
C5_AcceptsMinBelowWarning ==
    WithinOneSecond =>
        /\ obs.rate.accE = Min(obs.rate.n, obs.rate.L)
        /\ obs.rate.lvl < WARNING => obs.rate.accU = Min(obs.rate.n, obs.rate.L)

\* 61 records below WARNING within one second at the limit 60, one dropped
C5_Witness ==
    /\ WithinOneSecond
    /\ obs.rate.lvl < WARNING
    /\ obs.rate.L = UltraPerSec /\ obs.rate.n = UltraPerSec + 1
    /\ obs.rate.accE = UltraPerSec /\ obs.rate.accU = UltraPerSec

\* ------------------------------------------------------------------------
\* Claims checked under SpecProc
\* ------------------------------------------------------------------------
\* the ERROR lines of the full log that carry the correlation id, the
\* algorithm and the traceback of the last call
FailLines ==
    LET lines == Get(files, obs.call.path, <<>>)
        IsFail(line) ==
            IF line.lvl = ERROR /\ line.msg.t = "procfail"
            THEN /\ line.msg.corr = obs.call.corr
                 /\ line.msg.alg = obs.call.alg
                 /\ line.msg.tb
            ELSE FALSE
    IN { k \in 1..Len(lines) : IsFail(lines[k]) }

\* C8: when the wrapped algorithm of the last call raised, the full log has
\* exactly one ERROR line with the call's correlation id, the algorithm and
\* the traceback, and the caller got the original exception, whatever the
\* webhook did
C8_OneErrorLineAndReraise ==
    (obs.call.set /\ obs.call.outcome = "raise") =>
        /\ obs.call.raised = "original"
        /\ Cardinality(FailLines) = 1

\* ------------------------------------------------------------------------
\* Settings specification: the store is written through set_setting, is read
\* back as text by a later session, and is exported to and imported from a
\* JSON file
\* ------------------------------------------------------------------------
MaxSettingOps == 3
OtherKey == "window_geometry"
SettingKeys ==
    {"single_file_session", "debug_depth", "log_dir", "coalesce_window_sec", OtherKey}
SettingValues ==
    { PyNone, PyBool(FALSE), PyInt(7), PyFloat(2500),
      PyStr(""), PyStr("7"), PyStr("abc"), PyDict }

\* the text QSettings keeps for a value in its file
IniText(v) ==
    CASE v.t = "bool" -> PyStr(IF v.b THEN "true" ELSE "false")
      [] v.t = "int" -> PyStr(StrOfInt(v.i))
      [] v.t = "float" ->
           PyStr((CHOOSE n \in Numerals : n.m = v.m /\ (n.dot <=> v.m % 1000 # 0)).txt)
      [] OTHER -> v

SetKey(key, value) ==
    /\ obs.ops < MaxSettingOps
    /\ Becomes(Op(set_setting(W, key, value)))

\* a later session: settings() opens the store from its file
Reopen ==
    /\ obs.ops < MaxSettingOps
    /\ store # EmptyMap
    /\ Becomes(Op([W EXCEPT !.store = [k \in DOMAIN store |-> IniText(store[k])]]))

SettingsFile == [k |-> "settings_json"]

\* files a user can hand to the import
Docs ==
    { JsonList,
      JsonObject([k \in {"log_dir", OtherKey} |-> [j |-> "str", s |-> "abc"]]),
      JsonObject([k \in {"debug_depth", "single_file_session", "unknown"} |->
                    CASE k = "debug_depth" -> [j |-> "str", s |-> "7"]
                      [] k = "single_file_session" -> [j |-> "num", txt |-> "0"]
                      [] OTHER -> [j |-> "true"]]),
      JsonObject([k \in {"coalesce_window_sec", "log_dir"} |->
                    CASE k = "coalesce_window_sec" -> [j |-> "num", txt |-> "7"]
                      [] OTHER -> [j |-> "null"]]) }

WriteFile(doc) ==
    /\ obs.ops < MaxSettingOps
    /\ Becomes(Op([W EXCEPT !.files = Put(@, SettingsFile, << doc >>)]))

Export(fault) ==
    /\ obs.ops < MaxSettingOps
    /\ Becomes(Op(export_settings_json(W, SettingsFile, fault)))

Import ==
    /\ obs.ops < MaxSettingOps
    /\ Becomes(Op(import_settings_json(W, SettingsFile)))

\* what an earlier session left in the store
Stores ==
    { EmptyMap,
      [k \in {"single_file_session", "debug_depth", "coalesce_window_sec"} |->
         CASE k = "single_file_session" -> PyStr("false")
           [] k = "debug_depth" -> PyStr("3")
           [] OTHER -> PyStr("2.5")],
      [k \in {"log_dir", OtherKey} |-> PyStr("abc")] }

SettingsInit == \E st \in Stores : InitWithStore(DefaultCfg, st)

SettingsNext ==
    \/ \E key \in SettingKeys, value \in SettingValues : SetKey(key, value)
    \/ Reopen
    \/ \E doc \in Docs : WriteFile(doc)
    \/ \E fault \in BOOLEAN : Export(fault)
    \/ Import

SpecSettings == SettingsInit /\ [][SettingsNext]_vars

\* ------------------------------------------------------------------------
\* Retention specification: sessions leave log files, rotation backups and
\* crash snapshots in the log directory, the retention settings change, and
\* the directory is pruned
\* ------------------------------------------------------------------------
MaxPruneOps == 5
MaxStamp == 2
MaxKeep == 2
Categories == {"full", "errors", "tail", "jsonl", "json"}

\* a session at second ts writes a file of a category, or the rotating
\* handler renames a full log to its first backup
CreateFile(cat, ts, rot) ==
    /\ obs.ops < MaxPruneOps
    /\ rot = 1 => cat = "full"
    /\ LogName(cat, ts, rot, 0) \notin DOMAIN files
    /\ Becomes(Op([W EXCEPT !.files = Put(@, LogName(cat, ts, rot, 0),
                                          << [f |-> "text", ts |-> ts] >>)]))

SetRetention(key, value) ==
    /\ obs.ops < MaxPruneOps
    /\ Becomes(Op(set_setting(W, key, value)))

Prune ==
    /\ obs.ops < MaxPruneOps
    /\ Becomes(Op([prune_logs_now(W) EXCEPT !.obs.prunes = @ + 1]))

PruneInit == InitWith(DefaultCfg)

PruneNext ==
    \/ \E cat \in Categories, ts \in 1..MaxStamp, rot \in {0, 1} : CreateFile(cat, ts, rot)
    \/ \E key \in {"keep_full", "keep_errs", "keep_snap"}, k \in 0..MaxKeep :
          SetRetention(key, PyInt(k))
    \/ \E b \in BOOLEAN : SetRetention("compress_old", PyBool(b))
    \/ Prune

SpecPrune == PruneInit /\ [][PruneNext]_vars

\* ------------------------------------------------------------------------
\* Prune-on-start specification: earlier sessions left files in the log
\* directory, the retention settings change, and the engine is started
\* ------------------------------------------------------------------------
PruneStartNext ==
    \/ \E cat \in {"full", "errors", "tail"}, ts \in 1..MaxStamp : CreateFile(cat, ts, 0)
    \/ \E key \in {"keep_full", "keep_snap"}, k \in 0..MaxKeep : SetRetention(key, PyInt(k))
    \/ \E b \in BOOLEAN : SetRetention("prune_on_start", PyBool(b))
    \/ Start(TRUE)

SpecPruneStart == PruneInit /\ [][PruneStartNext]_vars

\* ------------------------------------------------------------------------
\* Diagnostics specification: the engine is started and stopped, records are
\* logged, and the plugin writes a diagnostics report or a diagnostics zip
\* ------------------------------------------------------------------------
OutDirs == {"", "out"}
ZipPath == [k |-> "zip", dir |-> "out"]

\* the plugin's "run diagnostics": write_diagnostics_txt()
Diagnostics(out_dir, mkdir_ok, write_ok) ==
    /\ obs.ops < MaxOps
    /\ Becomes(Op(write_diagnostics_txt(W, out_dir, mkdir_ok, write_ok)))

\* the plugin's "bundle logs": make_diagnostics_zip(out_path)
MakeZip(zip_ok) ==
    /\ obs.ops < MaxOps
    /\ Becomes(Op(make_diagnostics_zip(W, ZipPath, zip_ok)))

DiagInit == \E c \in LifeCfgs : InitWith(c)

DiagNext ==
    \/ Start(TRUE)
    \/ Stop
    \/ \E l \in {INFO, ERROR} : Log(l, UserMsg)
    \/ \E d \in OutDirs, m \in BOOLEAN, x \in BOOLEAN : Diagnostics(d, m, x)
    \/ \E z \in BOOLEAN : MakeZip(z)
    \/ Advance(1000, MaxTime)

SpecDiag == DiagInit /\ [][DiagNext]_vars

\* ------------------------------------------------------------------------
\* Dock specification: the engine is started and stopped and logs, a dock is
\* opened, paused, given a picked file and ticked by its timer and its file
\* watcher, and a file of the user is written, rewritten and replaced
\* ------------------------------------------------------------------------
UserFile == [k |-> "user"]
UserLine(n) == [f |-> "text", n |-> n]
Callbacks == {"plugin", "live"}

OpenDock(get_paths) ==
    /\ obs.ops < MaxOps
    /\ ~dock.open
    /\ Becomes(Op(NewDock(W, get_paths)))

\* the session of the dock has lines of its file it has not read yet
HasUnread ==
    /\ dock.open /\ dock.session.set /\ ~dock.session.orphan
    /\ dock.session.path \in DOMAIN files
    /\ Len(files[dock.session.path]) > dock.session.at

\* refresh_timer.timeout, fs_watcher.fileChanged and directoryChanged;
\* obs.ticks is the parity of the number of ticks
Tick ==
    /\ dock.open
    /\ Becomes([dock_tick(W) EXCEPT !.obs.ticks = 1 - @,
                                    !.obs.ptick = dock.paused /\ HasUnread])

TogglePause ==
    /\ obs.ops < MaxOps
    /\ dock.open
    /\ Becomes(Op(toggle_pause(W)))

\* the user clicks the "Auto-refresh" checkbox
ToggleAuto ==
    /\ obs.ops < MaxOps
    /\ dock.open
    /\ Becomes(Op(toggle_auto(W, ~dock.auto)))

PickFile ==
    /\ obs.ops < MaxOps
    /\ dock.open
    /\ UserFile \in DOMAIN files
    /\ Becomes(Op(pick_file(W, UserFile)))

\* a writer appends n lines to the user's file
WriteUser(n) ==
    /\ obs.ops < MaxOps
    /\ Len(Get(files, UserFile, <<>>)) + n <= 3
    /\ Becomes(Op([W EXCEPT !.files =
                      WriteLines(@, UserFile, [i \in 1..n |-> UserLine(i)])]))

\* the user's file gets a shorter content: rewritten in place, or replaced
\* by another file under the same path
ShrinkUser(inplace) ==
    /\ obs.ops < MaxOps
    /\ Len(Get(files, UserFile, <<>>)) > 1
    /\ Becomes(Op([W EXCEPT
           !.files = Put(@, UserFile, << UserLine(0) >>),
           !.dock = IF ~inplace /\ dock.open /\ dock.session.set
                       /\ dock.session.path = UserFile
                    THEN [@ EXCEPT !.session.orphan = TRUE,
                                   !.session.old = files[UserFile]]
                    ELSE @]))

DockCfgs == { [DefaultCfg EXCEPT !.single_file_session = b] : b \in BOOLEAN }

DockInit == \E c \in DockCfgs : InitWith(c)

DockNext ==
    \/ Start(TRUE)
    \/ Stop
    \/ Log(INFO, UserMsg)
    \/ Advance(1000, MaxTime)
    \/ \E g \in Callbacks : OpenDock(g)
    \/ Tick
    \/ TogglePause
    \/ ToggleAuto
    \/ PickFile
    \/ \E n \in 1..2 : WriteUser(n)
    \/ \E i \in BOOLEAN : ShrinkUser(i)

SpecDock == DockInit /\ [][DockNext]_vars

\* the engine and the dock alone; the timer of an open dock keeps firing
DockLiveNext ==
    \/ Start(TRUE)
    \/ Stop
    \/ Advance(1000, MaxTime)
    \/ OpenDock("plugin")
    \/ Tick
    \/ TogglePause

SpecDockLive == DockInit /\ [][DockLiveNext]_vars /\ WF_vars(Tick)

\* ------------------------------------------------------------------------
\* Plugin specification: the host loads the plugin, the user clicks the
\* toggle and works in the Settings Dialog, deferred callbacks fire, the
\* host unloads the plugin. The dialog is modal: while it is open only its
\* own widgets and the timers of the event loop act
\* ------------------------------------------------------------------------
MaxPluginOps == 5

InitGui ==
    /\ obs.ops < MaxPluginOps
    /\ ~plugin.loaded /\ ~plugin.unloaded
    /\ Becomes(Op(initGui(W)))

Unload ==
    /\ obs.ops < MaxPluginOps
    /\ plugin.loaded /\ ~plugin.dlg.open
    /\ Becomes(Op(unload(W)))

\* the user clicks the toggle action: triggered(checked)
ClickToggle(fault) ==
    /\ obs.ops < MaxPluginOps
    /\ plugin.loaded /\ ~plugin.dlg.open
    /\ Becomes(Op(toggle_monitor(W, ~plugin.checked, fault)))

\* a single-shot timer fires
FireDeferred(kind, fault) ==
    /\ obs.ops < MaxPluginOps
    /\ kind \in plugin.pending
    /\ Becomes(Op(IF kind = "autostart"
                  THEN auto_start([W EXCEPT !.plugin.pending = @ \ {kind}], fault)
                  ELSE restart_later([W EXCEPT !.plugin.pending = @ \ {kind}], fault)))

OpenSettings ==
    /\ obs.ops < MaxPluginOps
    /\ plugin.loaded /\ ~plugin.dlg.open
    /\ Becomes(Op(open_settings(W)))

DialogEdits ==
    { <<"log_dir", PyStr("abc")>>, <<"keep_full", PyInt(7)>>,
      <<"compress_old", PyBool(TRUE)>> }

DialogEdit(key, value) ==
    /\ obs.ops < MaxPluginOps
    /\ plugin.dlg.open /\ plugin.dlg.fields[key] # value
    /\ Becomes(Op(dialog_edit(W, key, value)))

\* the user clicks "import" and chooses a file holding doc
DialogImport(doc) ==
    /\ obs.ops < MaxPluginOps
    /\ plugin.dlg.open
    /\ Becomes(Op(dialog_import_json([W EXCEPT !.files = Put(@, SettingsFile, << doc >>)],
                                     SettingsFile)))

DialogCancel ==
    /\ obs.ops < MaxPluginOps
    /\ plugin.dlg.open
    /\ Becomes(Op(dialog_reject(W)))

DialogAccept ==
    /\ obs.ops < MaxPluginOps
    /\ plugin.dlg.open
    /\ Becomes(Op(dialog_accept(W)))

PluginCfgs == { [DefaultCfg EXCEPT !.autostart = a, !.heartbeat_sec = 0] : a \in BOOLEAN }

PluginInit == \E c \in PluginCfgs, st \in Stores : InitWithStore(c, st)

PluginNext ==
    \/ InitGui
    \/ Unload
    \/ \E fault \in StartFaults : ClickToggle(fault)
    \/ \E kind \in {"autostart", "restart"}, fault \in {"none", "tasks"} :
          FireDeferred(kind, fault)
    \/ OpenSettings
    \/ \E e \in DialogEdits : DialogEdit(e[1], e[2])
    \/ \E doc \in Docs : DialogImport(doc)
    \/ DialogCancel
    \/ DialogAccept

SpecPlugin == PluginInit /\ [][PluginNext]_vars

\* ------------------------------------------------------------------------
\* Hooks specification: start (which may raise midway) and stop cycles of
\* the engine in one host session, the hook flags changing between
\* sessions, and the host emitting its signals
\* ------------------------------------------------------------------------
MaxHookOps == 5
HookFlags == {"hook_processing", "hook_tasks", "hook_canvas", "hook_project"}

\* one more operation, obs.ret keeping which
Did(w, of, value) == Op(Returned(w, of, value))

StartWith(fault) ==
    LET Called(r) == Did(r.w, "qgismonitor_start", [raised |-> r.raised, fault |-> fault])
    IN /\ obs.ops < MaxHookOps
       /\ Becomes(Called(qgismonitor_start_with(W, TRUE, fault)))

StopEngine ==
    /\ obs.ops < MaxHookOps
    /\ Becomes(Did(qgismonitor_stop(W), "qgismonitor_stop", started))

\* the Settings Dialog is accepted with a hook switched off while the
\* engine is stopped
SetHookFlag(flag) ==
    /\ obs.ops < MaxHookOps
    /\ ~started /\ cfg[flag]
    /\ Becomes(Did([W EXCEPT !.cfg[flag] = FALSE], "set_setting", flag))

\* a signal of the host while the engine runs; obs.ev keeps the lines of
\* the full log for it before and after
HostEvent(kind) ==
    LET Seen(w1) == Did([w1 EXCEPT !.obs.ev = [set |-> TRUE, kind |-> kind,
                                               before |-> EventLines(W, kind),
                                               after |-> EventLines(w1, kind)]],
                        "host_event", kind)
    IN /\ obs.ops < MaxHookOps
       /\ started
       /\ Becomes(Seen(host_event(W, kind)))

HookCfgs == { [DefaultCfg EXCEPT !.coalesce_enabled = c] : c \in BOOLEAN }

HooksInit == \E c \in HookCfgs : InitWith(c)

HooksNext ==
    \/ \E fault \in {"none", "tasks"} : StartWith(fault)
    \/ StopEngine
    \/ \E flag \in HookFlags : SetHookFlag(flag)
    \/ \E kind \in EventKinds : HostEvent(kind)

SpecHooks == HooksInit /\ [][HooksNext]_vars

\* ------------------------------------------------------------------------
\* Claims checked under SpecStreams
\* ------------------------------------------------------------------------
\* C12: after ultra_logger.start() and stop(), sys.stdout and sys.stderr are
\* the objects they were before the start, whatever they were
C12_StreamsRestored ==
    (obs.before.set /\ ~ultra.started) =>
        /\ stdout = obs.before.out
        /\ stderr = obs.before.err

\* ------------------------------------------------------------------------
\* Claims checked under SpecSettings
\* ------------------------------------------------------------------------

\* C13: after set_setting(key, v) for a catalog key and a value v that
\* converts to the key's declared type, get_setting(key) returns coerce(v),
\* in the same session and in a later one; get_setting of a catalog key that
\* was never set returns the declared default, never None.
C13_SetThenGetIsCoerced ==
    /\ \A key \in DOMAIN SETTING_SPECS :
          key \notin DOMAIN store =>
              /\ get_setting(W, key) = SETTING_SPECS[key].default
              /\ get_setting(W, key) # PyNone
    /\ (/\ obs.lastset.set
        /\ obs.lastset.key \in DOMAIN SETTING_SPECS
        /\ obs.lastset.value # PyNone
        /\ Convert(SETTING_SPECS[obs.lastset.key].qt_type, obs.lastset.value).ok)
       => get_setting(W, obs.lastset.key)
            = Convert(SETTING_SPECS[obs.lastset.key].qt_type, obs.lastset.value).v

\* a value that is not of the declared type was set and converted, while
\* another catalog key was never set
C13_Witness ==
    /\ obs.lastset.set
    /\ obs.lastset.key = "debug_depth"
    /\ obs.lastset.value = PyStr("7")
    /\ get_setting(W, "debug_depth") = PyInt(7)
    /\ "log_dir" \notin DOMAIN store

\* what export_settings_json writes for the store as it is
ExportOfStore ==
    << JsonObject([k \in DOMAIN SETTING_SPECS |-> JsonDump(load_all_settings(W)[k])]) >>

\* the keys of the store outside the catalog, with their values
OutsideCatalog(st) == [k \in (DOMAIN st) \ DOMAIN SETTING_SPECS |-> st[k]]

\* the file holds an object with a member that is no catalog key
HasUnknownKeys ==
    /\ SettingsFile \in DOMAIN files
    /\ files[SettingsFile][1].j = "object"
    /\ DOMAIN files[SettingsFile][1].members \ DOMAIN SETTING_SPECS # {}

\* C14: an import of the file that export_settings_json wrote for the
\* current store returns True and leaves load_all_settings() as it was; an
\* import of a file with members outside the catalog returns True and
\* changes no stored key outside the catalog.
C14_ExportImportRoundTrip ==
    [][ obs'.imp.n > obs.imp.n =>
          /\ Get(files, SettingsFile, <<>>) = ExportOfStore =>
                /\ obs'.imp.ok
                /\ load_all_settings(W)' = load_all_settings(W)
          /\ HasUnknownKeys =>
                /\ obs'.imp.ok
                /\ OutsideCatalog(store') = OutsideCatalog(store) ]_vars

\* an import of the export of a store that an earlier session left as text
\* and that differs from the defaults has returned True
C14_Witness ==
    /\ obs.imp.n > 0 /\ obs.imp.ok
    /\ Get(files, SettingsFile, <<>>) = ExportOfStore
    /\ get_setting(W, "coalesce_window_sec") = PyFloat(2500)
    /\ get_setting(W, "single_file_session") = PyBool(FALSE)
    /\ store["debug_depth"] = PyInt(3)

\* ------------------------------------------------------------------------
\* Claims checked under SpecPrune
\* ------------------------------------------------------------------------

\* the k files of a set that sort last
LastK(found, k) ==
    { n \in found : Cardinality({ m \in found : SortKey(m) > SortKey(n) }) < k }

\* C15: for each of the four patterns, after prune_logs_now with retention
\* count k the files that match the pattern are exactly the k most recent of
\* those that matched before, and with compress_old every removed file has
\* its zip archive.
C15_LeavesExactlyKMostRecent ==
    [][ obs'.prunes > obs.prunes =>
          \A i \in DOMAIN Patterns :
             LET before == Glob(DOMAIN files, Patterns[i])
                 after  == Glob(DOMAIN files', Patterns[i])
                 k      == get_setting(W, Patterns[i].keep).i
             IN /\ after = LastK(before, k)
                /\ get_setting(W, "compress_old").b =>
                      \A n \in before \ after : ZipTarget(n) \in DOMAIN files' ]_vars

\* the same without compress_old
C15_WithoutCompress ==
    [][ (obs'.prunes > obs.prunes /\ ~get_setting(W, "compress_old").b) =>
          \A i \in DOMAIN Patterns :
             Glob(DOMAIN files', Patterns[i])
               = LastK(Glob(DOMAIN files, Patterns[i]),
                       get_setting(W, Patterns[i].keep).i) ]_vars

\* ------------------------------------------------------------------------
\* Claims checked under SpecDiag
\* ------------------------------------------------------------------------

\* C16: write_diagnostics_txt never raises: it returns a text that begins
\* with "ERROR:" for every failure, a failure to create the target directory
\* included, and the path it wrote on success.
C16_DiagnosticsNeverRaises ==
    (obs.ret.set /\ obs.ret.of = "write_diagnostics_txt") =>
        /\ obs.ret.kind = "return"
        /\ ~obs.ret.value.error => obs.ret.value.path \in DOMAIN files

\* the log files among full, errors and structured that exist
ExistingLogs ==
    { p \in {LOG_FILE, ERR_PATH, JSON_PATH} : p # NoPath /\ Exists(W, p) }

\* C17: make_diagnostics_zip never raises and returns a boolean, in every
\* engine state; the zip it reports as written holds the base name of every
\* existing log among full, errors and structured, and two text entries
\* besides them.
C17_ZipEntriesAndNoRaise ==
    (obs.ret.set /\ obs.ret.of = "make_diagnostics_zip") =>
        /\ obs.ret.kind = "return"
        /\ obs.ret.value \in BOOLEAN
        /\ obs.ret.value =>
              LET entries == files[ZipPath][1].zip
                  logs    == { Basename(p) : p \in ExistingLogs }
              IN /\ logs \subseteq entries
                 /\ Cardinality(entries \ logs) = 2

\* ------------------------------------------------------------------------
\* Claims checked under SpecDock and SpecDockLive
\* ------------------------------------------------------------------------

\* C18: a tick that finds the tailed file smaller than the size it last
\* observed reads the file again from offset 0: the read returns the whole
\* content of the file as it is now, not an empty text.
C18_ShrunkFileIsReadFromStart ==
    (dock.open /\ obs.tick.set /\ obs.tick.shrunk) =>
        /\ obs.tick.data # <<>>
        /\ obs.tick.data = files[dock.session.path]

\* C19: once the engine runs with a full-log path, a dock that the plugin
\* opened and that is not paused eventually tails that path.
C19_DockFollowsEnginePath ==
    (started /\ LOG_FILE # NoPath /\ dock.open /\ dock.get_paths = "plugin"
       /\ ~dock.paused)
    ~> (~dock.open \/ dock.paused \/ ~started \/ dock.current_path = LOG_FILE)

\* C20: after a file was picked, every later tick leaves the dock tailing
\* the picked file, whatever the path callback returns.
C20_PickedFileStaysTailed ==
    (dock.open /\ obs.picked # NoPath /\ obs.tick.set) =>
        /\ dock.current_path = obs.picked
        /\ dock.session.set /\ dock.session.path = obs.picked

\* C21: when the user switches the toggle on and the engine's start raises,
\* the toggle action ends unchecked and a critical dialog carrying the
\* error is shown
C21_FailedStartLeavesToggleUnchecked ==
    (/\ obs.ret.set /\ obs.ret.of = "toggle_monitor"
     /\ obs.ret.value.checked /\ obs.ret.value.raised)
    => /\ ~plugin.checked
       /\ plugin.dialog = [kind |-> "critical", text |-> obs.ret.value.exc]

\* a toggle just failed after the start had installed the handlers
C21_Witness ==
    /\ obs.ret.set /\ obs.ret.of = "toggle_monitor"
    /\ obs.ret.value.checked /\ obs.ret.value.raised
    /\ obs.ret.value.exc = "tasks" /\ handlers # <<>>
    /\ ~plugin.checked /\ plugin.dialog.kind = "critical"

\* C22: once unload() has run the engine is stopped and stays stopped,
\* whatever callbacks were deferred before
C22_StoppedAfterUnload ==
    plugin.unloaded => ~started

\* C23: when the Settings Dialog is cancelled the store holds exactly what
\* it held when the dialog was opened
C23_CancelLeavesStore ==
    (/\ obs.ret.set /\ obs.ret.of = "open_settings"
     /\ obs.ret.value = "cancelled")
    => store = plugin.dlg.at


\* the subscriptions of the engine to messageReceived
EngineSubs == Cardinality({ i \in 1..Len(subs) : subs[i].kind = "on_msg" })

\* the last step was the host emitting the signal kind while the engine ran
JustEmitted(kinds) ==
    obs.ret.set /\ obs.ret.of = "host_event" /\ obs.ev.set /\ obs.ev.kind \in kinds

\* C24: while the engine runs exactly one subscription to the host message
\* log is active and a foreign message is republished once; after stop()
\* returned the engine holds no subscription
C24_OneSubscriptionWhileRunning ==
    /\ started => EngineSubs = 1
    /\ (JustEmitted({"message"}) /\ obs.ev.before = 0) => obs.ev.after = 1
    /\ (obs.ret.set /\ obs.ret.of = "qgismonitor_stop") => EngineSubs = 0

\* the hook flag that governs a signal
FlagOf(kind) ==
    CASE kind \in {"saved", "cleared"} -> "hook_project"
      [] kind = "task" -> "hook_tasks"
      [] kind = "canvas" -> "hook_canvas"
      [] OTHER -> "hook_processing"

\* C25: in a session started with a hook flag disabled no record is logged
\* for the signals of that kind
C25_DisabledHookLogsNothing ==
    (/\ JustEmitted(EventKinds \ {"message"})
     /\ ~cfg[FlagOf(obs.ev.kind)])
    => obs.ev.after = obs.ev.before

\* C26: the project hooks are installed once whatever start/stop cycles
\* preceded, and a project signal produces exactly one log line
C26_ProjectHooksInstalledOnce ==
    /\ hooks.project <= 1
    /\ (/\ JustEmitted({"saved", "cleared"})
        /\ cfg.hook_project /\ obs.ev.before = 0)
       => obs.ev.after = 1

\* C27: a stop() that follows a start which raised midway leaves no engine
\* handler on the logger and no engine timer active
C27_StopReleasesAfterFailedStart ==
    (obs.ret.set /\ obs.ret.of = "qgismonitor_stop")
    => /\ handlers = <<>>
       /\ \A t \in DOMAIN timers : ~timers[t].active

\* C28: a stop() from the Running state leaves the logger without handlers,
\* the heartbeat, watchdog and coalesce timers inactive, the watchdog filter
\* removed and both started flags false
C28_StopReleasesEverything ==
    [][ (started /\ ~started')
        => /\ handlers' = <<>>
           /\ \A t \in DOMAIN timers' : ~timers'[t].active
           /\ tap' = 0
           /\ ~appProps'.started ]_vars

\* the engine ran with its timers and the watchdog filter, and was stopped
C28_Witness ==
    /\ ~started /\ ~appProps.started
    /\ \E i \in 1..Len(console) : console[i].msg = [t |-> "gestopt"]
    /\ handlers = <<>> /\ tap = 0 /\ closedH # {}
    /\ \A t \in DOMAIN timers : ~timers[t].active

\* C29: no operation of the engine changes sys.excepthook or sys.stderr
C29_EngineLeavesProcessHooks ==
    excepthook.kind = "orig" /\ stderr.kind = "orig"

\* the kinds of the filters of a handler, in the order they are evaluated
FilterKinds(h) == [i \in 1..Len(h.filters) |-> h.filters[i].kind]

\* C30: each non-console handler of the engine carries the rate limiter,
\* the coalescing filter and the noise filter, evaluated in that order
C30_FiltersInFixedOrder ==
    \A i \in 1..Len(handlers) :
       handlers[i].kind \in {"memh", "eh", "jsonl"}
       => SelectSeq(FilterKinds(handlers[i]),
                    LAMBDA k : k \in {"RateLimit", "Coalesce", "QtNoise"})
          = << "RateLimit", "Coalesce", "QtNoise" >>

\* C31: the handlers decide independently, so a record at ERROR or above
\* that is the first with its (level, message) key is written to the full
\* log and to the errors log
C31_FirstErrorInBothLogs ==
    (/\ Len(obs.logged) = 1
     /\ obs.logged[1].running
     /\ obs.logged[1].rec.lvl >= ERROR)
    => /\ HasLine(LOG_FILE, obs.logged[1].rec)
       /\ HasLine(ERR_PATH, obs.logged[1].rec)

\* C32: with prune_on_start set, a start() that takes the engine to Running
\* has pruned the log directory: no file that prune_logs_now removes from
\* the directory as it was is left after the start
C32_StartPrunesFirst ==
    [][ (~started /\ started' /\ get_setting(W, "prune_on_start").b)
        => \A n \in DOMAIN files :
              n \notin DOMAIN prune_logs_now(W).files => n \notin DOMAIN files' ]_vars

\* C40: prune_logs_now is idempotent: right after a run, another run changes
\* no file of the log directory
C40_PruneIsIdempotent ==
    [][ obs'.prunes > obs.prunes
        => prune_logs_now([W EXCEPT !.files = files', !.store = store']).files = files' ]_vars

\* the same with compress_old off
C40_WithoutCompress ==
    [][ (obs'.prunes > obs.prunes /\ ~get_setting(W, "compress_old").b)
        => prune_logs_now([W EXCEPT !.files = files', !.store = store']).files = files' ]_vars

\* C33: after stop() the coalesce cache holds no entry
C33_StopEmptiesCoalesceCache ==
    (/\ ~started
     /\ \E i \in 1..Len(console) : console[i].msg = [t |-> "gestopt"])
    => COALESCE = <<>>

\* C34: a dock never has more than one tail file handle open, also while
\* it switches to another file
C34_AtMostOneOpenHandle ==
    dock.open => dock.peak <= 1

\* C35: the refresh timer of a dock is active exactly when auto-refresh is
\* checked and the dock is not paused, and a tick of the timer or of the
\* file watcher that comes while the dock is paused reads nothing and
\* leaves the view as it is
C35_TimerFollowsAutoAndPause ==
    [][ /\ dock'.open => (dock'.timer <=> (dock'.auto /\ ~dock'.paused))
        /\ (dock.open /\ dock.paused /\ obs'.ticks # obs.ticks)
           => (dock'.view = dock.view /\ dock'.session = dock.session) ]_vars

\* a tick came while the dock was paused with lines it had not read yet
C35_Witness ==
    dock.open /\ dock.paused /\ ~dock.timer /\ obs.ptick /\ HasUnread

\* a message the engine logger took in from the host console although the
\* engine itself had published it there
Reingested(msg) == msg.t = "qgis" /\ msg.tag = MONITOR_TAG

\* C36: a record the engine publishes to the host message console is never
\* taken back into the engine logger by the engine's message-log slot:
\* neither the console nor the full log ever holds such a record
C36_RepublishedNotReingested ==
    /\ \A i \in 1..Len(console) : ~Reingested(console[i].msg)
    /\ \A k \in 1..Len(Get(files, LOG_FILE, <<>>)) :
          ~Reingested(Get(files, LOG_FILE, <<>>)[k].msg)

\* the engine's slot is connected, a message of the host was taken in and
\* published back to the console under the engine's tag
C36_Witness ==
    /\ started
    /\ \E i \in 1..Len(subs) : subs[i].kind = "on_msg"
    /\ \E i \in 1..Len(console) :
          /\ console[i].tag = MONITOR_TAG
          /\ console[i].msg.t = "qgis"
          /\ console[i].msg.tag = OtherTag

\* C37: whatever start() and stop() calls preceded, processing.run carries
\* at most one wrapper of the engine, and one run of an algorithm through
\* the wrapped entry point writes exactly one START line
C37_ProcessingWrappedOnce ==
    /\ hooks.layers <= 1
    /\ (JustEmitted({"processing"}) /\ hooks.wrapped)
       => obs.ev.after = obs.ev.before + 1

\* an algorithm ran through the wrapped entry point in a second session
C37_Witness ==
    /\ JustEmitted({"processing"}) /\ hooks.wrapped
    /\ obs.ev.after = obs.ev.before + 1
    /\ gen >= 2
    /\ Cardinality({ i \in 1..Len(console) : console[i].msg = [t |-> "gestopt"] }) >= 1

\* C38: the breadcrumb buffer never holds more than 400 entries, it holds
\* the most recent events with the oldest one evicted for each event beyond
\* 400, in the order they were emitted, and a read returns the most recent
\* ones in that order
C38_BreadcrumbsBoundedInOrder ==
    /\ Len(breadcrumbs) = Min(obs.crumbs, BreadcrumbCap)
    /\ \A i \in 1..Len(breadcrumbs) :
          breadcrumbs[i].evt = obs.crumbs - Len(breadcrumbs) + i
    /\ (obs.ret.set /\ obs.ret.of = "get_recent_breadcrumbs")
       => /\ Len(obs.ret.value) >= 1
          /\ \A j \in 1..Len(obs.ret.value) :
                obs.ret.value[j].evt = obs.crumbs - Len(obs.ret.value) + j

\* the full buffer took more events and was read
C38_Witness ==
    /\ obs.crumbs > BreadcrumbCap + 1
    /\ Len(breadcrumbs) = BreadcrumbCap
    /\ breadcrumbs[1].evt > 2
    /\ obs.ret.set /\ obs.ret.of = "get_recent_breadcrumbs"
    /\ Len(obs.ret.value) = BreadcrumbCap

\* C39: whenever no deferred callback is pending and no handler runs, the
\* Start/Stop toggle is checked exactly when the engine is running
C39_ToggleMirrorsEngine ==
    (plugin.loaded /\ plugin.pending = {} /\ ~plugin.dlg.open)
    => (plugin.checked <=> started)

====
